---- MODULE Spec2Model ----
(***************************************************************************)
(* A model of the ingestion / routing / indexing core of rag_langchain_v1. *)
(*                                                                         *)
(* Text is a sequence of one-character strings, so that substring search,  *)
(* splitext, stem and lower() are computed as the Python code computes     *)
(* them.                                                                   *)
(*                                                                         *)
(* The similarity-search store (Qdrant), the embedding provider and the    *)
(* document parsers are collaborators: their outputs are inputs of the     *)
(* model, drawn from small sets, and a provider fault is an input too.     *)
(***************************************************************************)
EXTENDS Integers, Sequences, FiniteSets, TLC

VARIABLES
    split,       \* the last load_and_split call: its arguments, outcome and chunks
    stats,       \* FileRouter.stats: the counters of one router
    result,      \* the last call on the router when it was route_file: its arguments,
                 \* the extractors it invoked and the ProcessingResult
    routerCall,  \* the last call on the router: its name, argument and value
    points,      \* the Qdrant collection: a set of points (id, page_content, metadata)
    call,        \* the last vector-store call: its name, argument, outcome and value
    prevDelete,  \* history: the source of the call before the last one, when that
                 \* call was a returned delete_by_source, else None
    cleared,     \* history: clear_collection returned True and index_documents
                 \* was not called since
    analysis,    \* the last call of the analyzer when it was analyze_content: the
                 \* outcome given and the analysis returned
    recommendation,  \* the last call of the analyzer when it was
                 \* _recommend_processing_strategy: its arguments and result
    upload,      \* one upload batch of the main UI: its files, its position in
                 \* the loop, the items collected and what became of it
    threads      \* the threads that run route_file on the router at the same
                 \* time: each one's file, position and the values it read

ingestVars == <<split>>
routerVars == <<stats, result, routerCall>>
storeVars == <<points, call, prevDelete, cleared>>
analyzerVars == <<analysis, recommendation>>
uploadVars == <<upload>>
threadVars == <<threads>>
vars == <<split, stats, result, routerCall, points, call, prevDelete, cleared, analysis, recommendation,
         upload, threads>>

(***************************************************************************)
(* Strings                                                                 *)
(***************************************************************************)

\* The characters used by the model, in code point order (Python compares
\* str values code point by code point).
Chars == <<" ", ".", "1", "2", ":", "D", "F", "P", "[", "]", "_",
           "a", "b", "c", "d", "e", "f", "g", "h", "i", "k", "l", "m", "n",
           "o", "p", "r", "t", "w", "x">>

Ord(c) == CHOOSE i \in 1..Len(Chars) : Chars[i] = c

\* a < b for two strings, as Python's str.__lt__
RECURSIVE StrLess(_, _)
StrLess(a, b) ==
    IF b = <<>> THEN FALSE
    ELSE IF a = <<>> THEN TRUE
    ELSE IF Head(a) = Head(b) THEN StrLess(Tail(a), Tail(b))
    ELSE Ord(Head(a)) < Ord(Head(b))

\* s[a..b], empty when a > b
Slice(s, a, b) == IF a > b THEN <<>> ELSE SubSeq(s, a, b)

\* needle in hay (Python's `in` on str)
Contains(hay, needle) ==
    \E i \in 0..(Len(hay) - Len(needle)) : Slice(hay, i + 1, i + Len(needle)) = needle

\* hay.count(needle): the occurrences found left to right without overlap
RECURSIVE CountFrom(_, _, _)
CountFrom(hay, needle, from) ==
    IF from + Len(needle) - 1 > Len(hay) THEN 0
    ELSE IF Slice(hay, from, from + Len(needle) - 1) = needle
         THEN 1 + CountFrom(hay, needle, from + Len(needle))
         ELSE CountFrom(hay, needle, from + 1)

Count(hay, needle) == CountFrom(hay, needle, 1)

\* s.rfind(c): the last index of the character c, 0 when there is none
RFind(s, c) ==
    IF \E i \in 1..Len(s) : s[i] = c
    THEN CHOOSE i \in 1..Len(s) : s[i] = c /\ \A j \in (i + 1)..Len(s) : s[j] # c
    ELSE 0

UpperCase == <<"A", "B", "C", "D", "E", "F", "G", "H", "I", "J", "K", "L", "M",
               "N", "O", "P", "Q", "R", "S", "T", "U", "V", "W", "X", "Y", "Z">>
LowerCase == <<"a", "b", "c", "d", "e", "f", "g", "h", "i", "j", "k", "l", "m",
               "n", "o", "p", "q", "r", "s", "t", "u", "v", "w", "x", "y", "z">>

LowerChar(c) ==
    IF \E i \in 1..26 : UpperCase[i] = c
    THEN LowerCase[CHOOSE i \in 1..26 : UpperCase[i] = c]
    ELSE c

\* s.lower()
Lower(s) == [i \in 1..Len(s) |-> LowerChar(s[i])]

\* s.strip() is empty: only white space
WhiteSpace == {" ", "\n", "\t"}
Blank(s) == \A i \in 1..Len(s) : s[i] \in WhiteSpace

Digits == <<"0", "1", "2", "3", "4", "5", "6", "7", "8", "9">>

\* str(n) for n >= 0, as an f-string formats an int
RECURSIVE Dec(_)
Dec(n) == IF n < 10 THEN <<Digits[n + 1]>> ELSE Dec(n \div 10) \o <<Digits[(n % 10) + 1]>>

\* sep.join(parts)
RECURSIVE Join(_, _)
Join(sep, parts) ==
    IF parts = <<>> THEN <<>>
    ELSE IF Len(parts) = 1 THEN parts[1]
    ELSE parts[1] \o sep \o Join(sep, Tail(parts))

\* the final path component (after the last "/")
BaseName(path) == Slice(path, RFind(path, "/") + 1, Len(path))

\* os.path.splitext(p)[1]: from the last dot of the final component, unless only
\* dots precede it there
SplitExt(path) ==
    LET sepIndex == RFind(path, "/")
        dotIndex == RFind(path, ".")
    IN IF dotIndex > sepIndex /\ \E i \in (sepIndex + 1)..(dotIndex - 1) : path[i] # "."
       THEN Slice(path, dotIndex, Len(path))
       ELSE <<>>

\* Path(p).stem: the final component without its suffix; the suffix starts at the
\* last dot unless that dot is the first or the last character of the name
Stem(path) ==
    LET name == BaseName(path)
        i == RFind(name, ".")
    IN IF 1 < i /\ i < Len(name) THEN Slice(name, 1, i - 1) ELSE name

\* Python's None; no text equals it.
None == <<"<None>">>

(***************************************************************************)
(* Uploaded files.  file_bytes is given by what each parsing library makes *)
(* of it: PyMuPDF (fitz), pypdf, docx2txt, markdown + BeautifulSoup, and   *)
(* the raw bytes that read_txt decodes.                                    *)
(***************************************************************************)

\* a cell of table.extract(): None or a text
Cell == <<"X">>

\* table.extract() grids (header row first)
GridTwoRows == <<<<Cell, Cell>>, <<Cell, None>>>>
GridHeaderOnly == <<<<Cell, Cell>>>>
GridEmptyBody == <<<<Cell, Cell>>, <<None, None>>>>
GridThreeRows == <<<<Cell, Cell>>, <<Cell, None>>, <<None, None>>, <<None, Cell>>>>

TableOk(grid) == [raises |-> FALSE, data |-> grid, bbox |-> <<0, 0, 1, 1>>]
TableRaises == [raises |-> TRUE, data |-> <<>>, bbox |-> <<0, 0, 1, 1>>]

\* an embedded image: pix.n and pix.alpha
ImageRGB == [n |-> 3, alpha |-> 0]
ImageCMYK == [n |-> 4, alpha |-> 0]

TextHi == <<"H", "i">>
TextBlank == <<" ", "\n">>

PageRich == [tables |-> <<TableOk(GridTwoRows)>>, text |-> TextHi, images |-> <<ImageRGB>>]
PageManyTables == [tables |-> <<TableOk(GridHeaderOnly), TableOk(GridTwoRows), TableRaises,
                            TableOk(GridEmptyBody)>>,
               text |-> TextBlank, images |-> <<ImageCMYK, ImageRGB>>]
PagePlain == [tables |-> <<>>, text |-> TextHi, images |-> <<>>]
PageTable == [tables |-> <<TableOk(GridThreeRows)>>, text |-> TextBlank, images |-> <<>>]
PageBlank == [tables |-> <<>>, text |-> TextBlank, images |-> <<>>]
PageImage == [tables |-> <<>>, text |-> TextBlank, images |-> <<ImageRGB>>]
PageTwoImages == [tables |-> <<>>, text |-> TextBlank, images |-> <<ImageRGB, ImageRGB>>]

Ok == [ok |-> TRUE, msg |-> <<>>]
Fails(msg) == [ok |-> FALSE, msg |-> msg]

MsgBadPdf == <<"b", "a", "d", " ", "p", "d", "f">>
MsgNoPages == <<"n", "o", " ", "E", "O", "F">>
MsgBadZip == <<"n", "o", "t", " ", "a", " ", "z", "i", "p">>
MsgEmpty == <<>>

\* the bytes 0xff is no UTF-8; decode(errors="ignore") drops it
InvalidByte == "0xff"

PdfBytes(fitz, pypdf, pages) ==
    [fitz |-> fitz, pypdf |-> pypdf, pages |-> pages,
     docx2txt |-> Fails(MsgBadZip), docx_text |-> <<>>,
     md_text |-> <<"%", "P", "D", "F">>, raw |-> <<"%", "P", "D", "F", InvalidByte>>]

DocxBytes(docx2txt, text) ==
    [fitz |-> Fails(MsgBadPdf), pypdf |-> Fails(MsgNoPages), pages |-> <<>>,
     docx2txt |-> docx2txt, docx_text |-> text,
     md_text |-> <<"P", "K">>, raw |-> <<"P", "K", InvalidByte>>]

\* md_text: what markdown() and BeautifulSoup.get_text("\n") leave of the bytes
TextBytes(raw, md_text) ==
    [fitz |-> Fails(MsgBadPdf), pypdf |-> Fails(MsgNoPages), pages |-> <<>>,
     docx2txt |-> Fails(MsgBadZip), docx_text |-> <<>>,
     md_text |-> md_text, raw |-> raw]

FileBytes ==
    { PdfBytes(Ok, Ok, <<PageRich>>),
      PdfBytes(Ok, Ok, <<PageManyTables, PagePlain>>),
      PdfBytes(Ok, Ok, <<PageBlank>>),
      PdfBytes(Ok, Ok, <<PageImage>>),
      PdfBytes(Ok, Ok, <<PageTable>>),
      PdfBytes(Fails(MsgBadPdf), Ok, <<PagePlain, PageRich>>),
      PdfBytes(Fails(MsgEmpty), Fails(MsgNoPages), <<PagePlain>>),
      DocxBytes(Ok, TextHi),
      DocxBytes(Ok, <<>>),
      DocxBytes(Fails(MsgEmpty), <<>>),
      TextBytes(<<"#", " ", "H", "i", InvalidByte>>, TextHi),
      TextBytes(<<InvalidByte>>, <<>>),
      TextBytes(<<" ", "\n">>, <<>>) }

F_a_pdf == <<"a", ".", "p", "d", "f">>
F_b_txt == <<"b", ".", "t", "x", "t">>
F_c_md == <<"c", ".", "m", "d">>
F_pdf_pdf == <<"p", "d", "f", ".", "p", "d", "f">>
F_A_PDF == <<"A", ".", "P", "D", "F">>
F_d_docx == <<"d", ".", "d", "o", "c", "x">>
F_e_doc == <<"e", ".", "d", "o", "c">>
F_f_markdown == <<"f", ".", "m", "a", "r", "k", "d", "o", "w", "n">>
F_g_exe == <<"g", ".", "e", "x", "e">>
F_h_Exe == <<"h", ".", "E", "x", "e">>
F_noext == <<"n", "o", "t", "e", "s">>
F_dot_pdf == <<".", "p", "d", "f">>

FileNames ==
    { F_a_pdf, F_pdf_pdf, F_A_PDF, F_b_txt, F_c_md, F_d_docx, F_e_doc, F_f_markdown,
      F_g_exe, F_h_Exe, F_noext, F_dot_pdf }

(***************************************************************************)
(* Extractors (utils/file_processors.py)                                   *)
(***************************************************************************)

RECURSIVE Concat(_)
Concat(seqs) == IF seqs = <<>> THEN <<>> ELSE Head(seqs) \o Concat(Tail(seqs))

\* the indices of s that satisfy Test, in order
Indices(s, Test(_)) == SelectSeq([i \in 1..Len(s) |-> i], Test)

\* df = pd.DataFrame(table_data[1:], columns=table_data[0])
\*      .dropna(how='all').dropna(axis=1, how='all')
DataFrame(table_data) ==
    LET body == Tail(table_data)
        rows == SelectSeq(body, LAMBDA row : \E j \in 1..Len(row) : row[j] # None)
        cols == Indices(table_data[1],
                        LAMBDA j : \E i \in 1..Len(rows) : rows[i][j] # None)
    IN [columns |-> [k \in 1..Len(cols) |-> table_data[1][cols[k]]],
        rows |-> [i \in 1..Len(rows) |-> [k \in 1..Len(cols) |-> rows[i][cols[k]]]]]

\* df.empty
DfEmpty(df) == Len(df.rows) = 0 \/ Len(df.columns) = 0

\* Mutant: a table is kept when two rows remain under the header.
TableKeptTwoRows(table) ==
    /\ ~table.raises
    /\ Len(table.data) > 1
    /\ Len(DataFrame(table.data).rows) >= 2

\* the table is kept: extract() returned, "if table_data and len(table_data) > 1",
\* "if not df.empty"; an exception of the table is caught and the table skipped
TableKept(table) ==
    /\ ~table.raises
    /\ Len(table.data) > 1
    /\ ~DfEmpty(DataFrame(table.data))

\* f"[Trang {page_num + 1}] Bảng {table_index + 1}: " (table_index counts from 0)
TablePrefix(page, table_index) ==
    <<"[", "T", "r", "a", "n", "g", " ">> \o Dec(page) \o <<"]", " ", "B", "ả", "n", "g", " ">> \o Dec(table_index + 1) \o <<":", " ">>

\* f"{filename}_page{page_num + 1}_table{table_index + 1}"
EmbeddedTableRef(filename, page, table_index) ==
    filename \o <<"_", "p", "a", "g", "e">> \o Dec(page) \o <<"_", "t", "a", "b", "l", "e">> \o Dec(table_index + 1)

TableToken(filename, page, table_index) ==
    TablePrefix(page, table_index) \o EmbeddedTableRef(filename, page, table_index)

\* f"{Path(filename).stem}_page{page_num + 1}_img{img_index + 1}.png"
ImgFilename(filename, page, img_index) ==
    Stem(filename) \o <<"_", "p", "a", "g", "e">> \o Dec(page) \o <<"_", "i", "m", "g">> \o Dec(img_index + 1) \o <<".", "p", "n", "g">>

\* images_dir / img_filename
ImgPath(filename, page, img_index) ==
    <<"e", "x", "t", "r", "a", "c", "t", "e", "d", "_", "i", "m", "a", "g", "e", "s", "/">> \o ImgFilename(filename, page, img_index)

\* f"[Trang {page_num + 1}] Hình ảnh: {img_filename}"
ImageToken(filename, page, img_index) ==
    <<"[", "T", "r", "a", "n", "g", " ">> \o Dec(page) \o <<"]", " ", "H", "ì", "n", "h", " ", "ả", "n", "h", ":", " ">> \o ImgFilename(filename, page, img_index)

\* f"[Trang {n}]\n{text}"
PageText(page, text) == <<"[", "T", "r", "a", "n", "g", " ">> \o Dec(page) \o <<"]", "\n">> \o text

\* the image is saved: "if pix.n - pix.alpha < 4"
ImageSaved(img) == img.n - img.alpha < 4

KeptTables(pg) == Indices(pg.tables, LAMBDA k : TableKept(pg.tables[k]))
SavedImages(pg) == Indices(pg.images, LAMBDA k : ImageSaved(pg.images[k]))

\* Mutant: a saved image leaves no token in the text.
TextsOfPageWithoutImageTokens(pg, filename, page) ==
    LET kept == KeptTables(pg)
    IN [i \in 1..Len(kept) |-> TableToken(filename, page, kept[i] - 1)]
       \o (IF Blank(pg.text) THEN <<>> ELSE <<PageText(page, pg.text)>>)

\* what one page appends to texts: table tokens, the page text, image tokens
TextsOfPage(pg, filename, page) ==
    LET kept == KeptTables(pg)
        saved == SavedImages(pg)
    IN [i \in 1..Len(kept) |-> TableToken(filename, page, kept[i] - 1)]
       \o (IF Blank(pg.text) THEN <<>> ELSE <<PageText(page, pg.text)>>)
       \o [i \in 1..Len(saved) |-> ImageToken(filename, page, saved[i] - 1)]

TablesOfPage(pg, page) ==
    LET kept == KeptTables(pg)
    IN [i \in 1..Len(kept) |->
          [page |-> page, table_index |-> kept[i] - 1,
           data |-> DataFrame(pg.tables[kept[i]].data), bbox |-> pg.tables[kept[i]].bbox]]

ImagesOfPage(pg, filename, page) ==
    LET saved == SavedImages(pg)
    IN [i \in 1..Len(saved) |-> ImgPath(filename, page, saved[i] - 1)]

\* read_pdf_with_images(file_bytes, filename): (text, image_paths, tables_data),
\* or the exception of PyMuPDF
read_pdf_with_images(file_bytes, filename) ==
    IF ~file_bytes.fitz.ok
    THEN [raised |-> TRUE, msg |-> file_bytes.fitz.msg,
          text |-> <<>>, image_paths |-> <<>>, tables_data |-> <<>>]
    ELSE LET pages == file_bytes.pages
         IN [raised |-> FALSE, msg |-> <<>>,
             text |-> Join(<<"\n", "\n">>,
                           Concat([n \in 1..Len(pages) |-> TextsOfPage(pages[n], filename, n)])),
             image_paths |-> Concat([n \in 1..Len(pages) |-> ImagesOfPage(pages[n], filename, n)]),
             tables_data |-> Concat([n \in 1..Len(pages) |-> TablesOfPage(pages[n], n)])]

\* read_pdf(file_bytes): the pages with text, joined by "\n", or the exception of pypdf
read_pdf(file_bytes) ==
    IF ~file_bytes.pypdf.ok
    THEN [raised |-> TRUE, msg |-> file_bytes.pypdf.msg, text |-> <<>>]
    ELSE LET pages == file_bytes.pages
             withText == Indices(pages, LAMBDA n : ~Blank(pages[n].text))
         IN [raised |-> FALSE, msg |-> <<>>,
             text |-> Join(<<"\n">>, [i \in 1..Len(withText) |->
                                     PageText(withText[i], pages[withText[i]].text)])]

\* read_docx(file_bytes): docx2txt.process(f) or ""
read_docx(file_bytes) ==
    IF ~file_bytes.docx2txt.ok
    THEN [raised |-> TRUE, msg |-> file_bytes.docx2txt.msg, text |-> <<>>]
    ELSE [raised |-> FALSE, msg |-> <<>>, text |-> file_bytes.docx_text]

\* file_bytes.decode("utf-8", errors="ignore")
Decode(raw) == SelectSeq(raw, LAMBDA b : b # InvalidByte)

\* read_md(file_bytes): BeautifulSoup(markdown(decoded), "html.parser").get_text("\n")
read_md(file_bytes) == [raised |-> FALSE, msg |-> <<>>, text |-> file_bytes.md_text]

\* read_txt(file_bytes)
read_txt(file_bytes) == [raised |-> FALSE, msg |-> <<>>, text |-> Decode(file_bytes.raw)]


(***************************************************************************)
(* Chunking and linking (services/ingestion.py)                            *)
(***************************************************************************)

MaxChunks == 3      \* chunks the splitter returns at most

\* SUPPORTED_EXTENSIONS
SUPPORTED_EXTENSIONS == {<<".", "p", "d", "f">>, <<".", "d", "o", "c", "x">>, <<".", "t", "x", "t">>, <<".", "m", "d">>}

\* (chunk_size, chunk_overlap) of the calls
SplitParams ==
    { [chunk_size |-> 1000, chunk_overlap |-> 120],
      [chunk_size |-> 60, chunk_overlap |-> 0],
      [chunk_size |-> 30, chunk_overlap |-> 0],
      [chunk_size |-> 60, chunk_overlap |-> 20] }

\* s.strip()
Strip(s) ==
    IF Blank(s) THEN <<>>
    ELSE LET a == CHOOSE a \in 1..Len(s) :
                      s[a] \notin WhiteSpace /\ \A j \in 1..(a - 1) : s[j] \in WhiteSpace
             b == CHOOSE b \in 1..Len(s) :
                      s[b] \notin WhiteSpace /\ \A j \in (b + 1)..Len(s) : s[j] \in WhiteSpace
         IN Slice(s, a, b)

\* RecursiveCharacterTextSplitter cuts in front of its separators "\n\n", "\n" and
\* " " (its last separator "" is needed only for a run without white space longer
\* than chunk_size): the places after character i where a piece may end.
CutPoints(text) ==
    {0, Len(text)} \cup
    {i \in 1..(Len(text) - 1) : text[i] \notin WhiteSpace /\ text[i + 1] \in WhiteSpace}

\* the subsets of S with at most k elements
RECURSIVE SubsetsUpTo(_, _)
SubsetsUpTo(S, k) ==
    IF k = 0 THEN {{}}
    ELSE LET smaller == SubsetsUpTo(S, k - 1)
         IN smaller \cup {T \cup {x} : T \in smaller, x \in S}

\* the elements of a set of numbers in ascending order
RECURSIVE Ascending(_)
Ascending(S) ==
    IF S = {} THEN <<>>
    ELSE LET m == CHOOSE m \in S : \A o \in S : m <= o
         IN <<m>> \o Ascending(S \ {m})

\* The pieces <<first, last>> of text for the ends chosen: a piece starts right
\* after the end of the one before it or, overlapped, at the first cut point that
\* is at most chunk_overlap characters before that end.
Pieces(text, ends, chunk_overlap, overlapped) ==
    LET cuts == CutPoints(text)
        e == Ascending(ends \cup {Len(text)})
        start(i) ==
            IF i = 1 THEN 1
            ELSE IF overlapped
            THEN 1 + CHOOSE x \in cuts :
                        /\ e[i - 1] - x <= chunk_overlap /\ x <= e[i - 1]
                        /\ \A y \in cuts : (e[i - 1] - y <= chunk_overlap) => x <= y
            ELSE e[i - 1] + 1
    IN [i \in 1..Len(e) |-> <<start(i), e[i]>>]

\* The ways the splitter may cover the text with at most MaxChunks pieces of at
\* most chunk_size characters, each piece starting after the start of the one
\* before it.
Tilings(text, chunk_size, chunk_overlap) ==
    LET inner == CutPoints(text) \ {0, Len(text)}
        all == { Pieces(text, ends, chunk_overlap, overlapped) :
                   ends \in SubsetsUpTo(inner, MaxChunks - 1),
                   overlapped \in BOOLEAN }
    IN { t \in all :
           /\ \A i \in 1..Len(t) : t[i][2] - t[i][1] + 1 <= chunk_size
           /\ \A i \in 2..Len(t) : t[i][1] > t[i - 1][1] }

\* splitter.split_text(text): the stripped pieces that are not empty, in order
SplitTexts(text, chunk_size, chunk_overlap) ==
    IF Blank(text) THEN {<<>>}
    ELSE { SelectSeq([i \in 1..Len(tiling) |-> Strip(Slice(text, tiling[i][1], tiling[i][2]))],
                     LAMBDA c : c # <<>>)
           : tiling \in Tilings(text, chunk_size, chunk_overlap) }

\* f"{Path(filename).stem}_page{table_dict['page']}_table{table_dict['table_index'] + 1}"
table_ref(filename, table_dict) ==
    Stem(filename) \o <<"_", "p", "a", "g", "e">> \o Dec(table_dict.page) \o <<"_", "t", "a", "b", "l", "e">>
    \o Dec(table_dict.table_index + 1)

\* Mutant: the chunks are numbered from 1.
ChunkMetadataFromOne(filename, i, chunk, image_paths, tables_data) ==
    LET chunk_images == SelectSeq(image_paths, LAMBDA img_path : Contains(chunk, BaseName(img_path)))
        chunk_tables == SelectSeq(tables_data, LAMBDA t : Contains(chunk, table_ref(filename, t)))
    IN [source |-> filename, chunk |-> i + 1,
        images |-> chunk_images, tables |-> chunk_tables,
        keys |-> {"source", "chunk"}
                 \cup (IF chunk_images # <<>> THEN {"images"} ELSE {})
                 \cup (IF chunk_tables # <<>> THEN {"tables"} ELSE {})]

\* Mutant: "images" and "tables" are set for every chunk.
ChunkMetadataWithEmptyLists(filename, i, chunk, image_paths, tables_data) ==
    LET chunk_images == SelectSeq(image_paths, LAMBDA img_path : Contains(chunk, BaseName(img_path)))
        chunk_tables == SelectSeq(tables_data, LAMBDA t : Contains(chunk, table_ref(filename, t)))
    IN [source |-> filename, chunk |-> i,
        images |-> chunk_images, tables |-> chunk_tables,
        keys |-> {"source", "chunk", "images", "tables"}]

\* the metadata of chunk i (counted from 0): "images" and "tables" are set only
\* when the chunk mentions one
ChunkMetadata(filename, i, chunk, image_paths, tables_data) ==
    LET chunk_images == SelectSeq(image_paths, LAMBDA img_path : Contains(chunk, BaseName(img_path)))
        chunk_tables == SelectSeq(tables_data, LAMBDA t : Contains(chunk, table_ref(filename, t)))
    IN [source |-> filename, chunk |-> i,
        images |-> chunk_images, tables |-> chunk_tables,
        keys |-> {"source", "chunk"}
                 \cup (IF chunk_images # <<>> THEN {"images"} ELSE {})
                 \cup (IF chunk_tables # <<>> THEN {"tables"} ELSE {})]

\* the extraction of load_and_split: by extension, the PDF fallback on any exception
Extract(ext, filename, file_bytes) ==
    IF ext = <<".", "p", "d", "f">>
    THEN LET adv == read_pdf_with_images(file_bytes, filename)
             simple == read_pdf(file_bytes)
         IN IF ~adv.raised THEN adv
            ELSE [raised |-> simple.raised, msg |-> simple.msg, text |-> simple.text,
                  image_paths |-> <<>>, tables_data |-> <<>>]
    ELSE LET r == IF ext = <<".", "d", "o", "c", "x">> THEN read_docx(file_bytes)
                  ELSE IF ext = <<".", "m", "d">> THEN read_md(file_bytes)
                  ELSE read_txt(file_bytes)
         IN [raised |-> r.raised, msg |-> r.msg, text |-> r.text,
             image_paths |-> <<>>, tables_data |-> <<>>]

NoSplit == [filename |-> <<>>, file_bytes |-> <<>>, chunk_size |-> 0, chunk_overlap |-> 0,
            outcome |-> "none", msg |-> <<>>, results |-> <<>>]

Called(filename, file_bytes, params, outcome, msg, results) ==
    [filename |-> filename, file_bytes |-> file_bytes,
     chunk_size |-> params.chunk_size, chunk_overlap |-> params.chunk_overlap,
     outcome |-> outcome, msg |-> msg, results |-> results]

\* what load_and_split(filename, file_bytes, chunk_size, chunk_overlap) may do:
\* raise ValueError, let the extractor's exception pass, or return the chunks
SplitOutcomes(filename, file_bytes, params) ==
    LET ext == Lower(SplitExt(filename))
        x == Extract(ext, filename, file_bytes)
    IN IF ext \notin SUPPORTED_EXTENSIONS
       THEN { Called(filename, file_bytes, params, "ValueError",
                     <<"U", "n", "s", "u", "p", "p", "o", "r", "t", "e", "d", " ", "f", "i", "l", "e", " ", "t", "y", "p", "e", ":", " ">> \o ext, <<>>) }
       ELSE IF x.raised
       THEN { Called(filename, file_bytes, params, "raised", x.msg, <<>>) }
       ELSE { Called(filename, file_bytes, params, "returned", <<>>,
                     [i \in 1..Len(chunks) |->
                         [content |-> chunks[i],
                          metadata |-> ChunkMetadata(filename, i - 1, chunks[i],
                                                     x.image_paths, x.tables_data)]])
              : chunks \in SplitTexts(x.text, params.chunk_size, params.chunk_overlap) }

\* load_and_split(filename, file_bytes, chunk_size=..., chunk_overlap=...); one
\* call is followed
load_and_split(filename, file_bytes, params) ==
    /\ split.outcome = "none"
    /\ split' \in SplitOutcomes(filename, file_bytes, params)
    /\ UNCHANGED <<routerVars, storeVars, analyzerVars, uploadVars, threadVars>>

\* the contents handed to load_and_split
IngestBytes == FileBytes \cup { PdfBytes(Ok, Ok, <<PageTwoImages>>) }

LoadAndSplit ==
    \E filename \in FileNames, file_bytes \in IngestBytes, params \in SplitParams :
        load_and_split(filename, file_bytes, params)

IngestNext == LoadAndSplit

\* generate_node: the line that introduces a retrieved chunk in the context,
\* f"[source={d.metadata.get('source')}, chunk={d.metadata.get('chunk')}]"
ContextHeader(metadata) ==
    <<"[", "s", "o", "u", "r", "c", "e", "=">> \o metadata.source
    \o <<",", " ", "c", "h", "u", "n", "k", "=">> \o Dec(metadata.chunk) \o <<"]">>

(***************************************************************************)
(* The router (routers/file_router.py)                                     *)
(***************************************************************************)

MaxFiles == 2       \* files one router routes at most

\* class FileType(Enum): the members' values
FileTypes == {"pdf", "docx", "doc", "txt", "md", "unknown"}

\* ProcessingResult(success, file_type, content="", tables=None, images=None,
\*                  metadata=None, error=""): "tables or []", "metadata or {}"
ProcessingResult(success, file_type, content, tables, images, metadata, error) ==
    [success |-> success, file_type |-> file_type, content |-> content,
     tables |-> tables, images |-> images, metadata |-> metadata, error |-> error]

NoMetadata == [processing_method |-> <<>>]

Failure(file_type, error) ==
    ProcessingResult(FALSE, file_type, <<>>, <<>>, <<>>, NoMetadata, error)

\* Mutant: the extension is looked up as it is written.
detect_file_type_as_written(filename) ==
    LET ext == SplitExt(filename)
    IN IF ext = <<".", "p", "d", "f">> THEN "pdf"
       ELSE IF ext = <<".", "d", "o", "c", "x">> THEN "docx"
       ELSE IF ext = <<".", "d", "o", "c">> THEN "doc"
       ELSE IF ext = <<".", "t", "x", "t">> THEN "txt"
       ELSE IF ext = <<".", "m", "d">> THEN "md"
       ELSE IF ext = <<".", "m", "a", "r", "k", "d", "o", "w", "n">> THEN "md"
       ELSE "unknown"

\* FileRouter.detect_file_type: type_mapping.get(ext, FileType.UNKNOWN)
detect_file_type(filename) ==
    LET ext == Lower(SplitExt(filename))
    IN IF ext = <<".", "p", "d", "f">> THEN "pdf"
       ELSE IF ext = <<".", "d", "o", "c", "x">> THEN "docx"
       ELSE IF ext = <<".", "d", "o", "c">> THEN "doc"
       ELSE IF ext = <<".", "t", "x", "t">> THEN "txt"
       ELSE IF ext = <<".", "m", "d">> THEN "md"
       ELSE IF ext = <<".", "m", "a", "r", "k", "d", "o", "w", "n">> THEN "md"
       ELSE "unknown"

\* text.count('[Trang ') if '[Trang ' in text else 1
PageCount(text) ==
    IF Contains(text, <<"[", "T", "r", "a", "n", "g", " ">>) THEN Count(text, <<"[", "T", "r", "a", "n", "g", " ">>) ELSE 1

\* len(text.split())
WordCount(text) ==
    Cardinality({i \in 1..Len(text) :
                    /\ text[i] \notin WhiteSpace
                    /\ (i = 1 \/ text[i - 1] \in WhiteSpace)})

\* len([p for p in text.split('\n\n') if p.strip()])
RECURSIVE ParagraphCount(_)
ParagraphCount(text) ==
    IF Contains(text, <<"\n", "\n">>)
    THEN LET i == CHOOSE i \in 1..(Len(text) - 1) :
                      /\ Slice(text, i, i + 1) = <<"\n", "\n">>
                      /\ \A j \in 1..(i - 1) : Slice(text, j, j + 1) # <<"\n", "\n">>
         IN (IF Blank(Slice(text, 1, i - 1)) THEN 0 ELSE 1)
            + ParagraphCount(Slice(text, i + 2, Len(text)))
    ELSE IF Blank(text) THEN 0 ELSE 1

\* Mutant: the failure of both methods is reported without the exception's text.
_handle_pdf_no_message(filename, file_bytes) ==
    LET adv == read_pdf_with_images(file_bytes, filename)
        simple == read_pdf(file_bytes)
    IN IF ~adv.raised
       THEN ProcessingResult(TRUE, "pdf", adv.text, adv.tables_data, adv.image_paths,
                [processing_method |-> <<"p", "y", "m", "u", "p", "d", "f", "_", "a", "d", "v", "a", "n", "c", "e", "d">>,
                 page_count |-> PageCount(adv.text),
                 has_tables |-> Len(adv.tables_data) > 0,
                 has_images |-> Len(adv.image_paths) > 0],
                <<>>)
       ELSE IF ~simple.raised
       THEN ProcessingResult(TRUE, "pdf", simple.text, <<>>, <<>>,
                [processing_method |-> <<"p", "y", "p", "d", "f", "_", "s", "i", "m", "p", "l", "e">>,
                 page_count |-> PageCount(simple.text),
                 fallback_reason |-> adv.msg],
                <<>>)
       ELSE Failure("pdf", <<"B", "o", "t", "h", " ", "P", "D", "F", " ", "p", "r", "o", "c", "e", "s", "s", "i", "n", "g", " ", "m", "e", "t", "h", "o", "d", "s", " ", "f", "a", "i", "l", "e", "d">>)

\* FileRouter._handle_pdf
_handle_pdf(filename, file_bytes) ==
    LET adv == read_pdf_with_images(file_bytes, filename)
        simple == read_pdf(file_bytes)
    IN IF ~adv.raised
       THEN ProcessingResult(TRUE, "pdf", adv.text, adv.tables_data, adv.image_paths,
                [processing_method |-> <<"p", "y", "m", "u", "p", "d", "f", "_", "a", "d", "v", "a", "n", "c", "e", "d">>,
                 page_count |-> PageCount(adv.text),
                 has_tables |-> Len(adv.tables_data) > 0,
                 has_images |-> Len(adv.image_paths) > 0],
                <<>>)
       ELSE IF ~simple.raised
       THEN ProcessingResult(TRUE, "pdf", simple.text, <<>>, <<>>,
                [processing_method |-> <<"p", "y", "p", "d", "f", "_", "s", "i", "m", "p", "l", "e">>,
                 page_count |-> PageCount(simple.text),
                 fallback_reason |-> adv.msg],
                <<>>)
       ELSE Failure("pdf", <<"B", "o", "t", "h", " ", "P", "D", "F", " ", "p", "r", "o", "c", "e", "s", "s", "i", "n", "g", " ", "m", "e", "t", "h", "o", "d", "s", " ", "f", "a", "i", "l", "e", "d", ":", " ">> \o simple.msg)

\* Mutant: the error of a failed extraction is str(e) alone, and the text that was
\* read stays in the result.
_handle_docx_bare_error(filename, file_bytes) ==
    LET r == read_docx(file_bytes)
    IN IF r.raised
       THEN ProcessingResult(FALSE, "docx", <<>>, <<>>, <<>>, NoMetadata, r.msg)
       ELSE IF r.text = <<>> \/ Blank(r.text)
       THEN ProcessingResult(FALSE, "docx", r.text, <<>>, <<>>, NoMetadata,
                             <<"N", "o", " ", "t", "e", "x", "t", " ", "c", "o", "n", "t", "e", "n", "t", " ", "e", "x", "t", "r", "a", "c", "t", "e", "d", " ", "f", "r", "o", "m", " ", "D", "O", "C", "X", " ", "f", "i", "l", "e">>)
       ELSE ProcessingResult(TRUE, "docx", r.text, <<>>, <<>>,
                [processing_method |-> <<"d", "o", "c", "x", "2", "t", "x", "t">>,
                 word_count |-> WordCount(r.text),
                 paragraph_count |-> ParagraphCount(r.text)],
                <<>>)

\* FileRouter._handle_docx (also the handler of FileType.DOC)
_handle_docx(filename, file_bytes) ==
    LET r == read_docx(file_bytes)
    IN IF r.raised THEN Failure("docx", <<"D", "O", "C", "X", " ", "p", "r", "o", "c", "e", "s", "s", "i", "n", "g", " ", "f", "a", "i", "l", "e", "d", ":", " ">> \o r.msg)
       ELSE IF r.text = <<>> \/ Blank(r.text)
       THEN Failure("docx", <<"N", "o", " ", "t", "e", "x", "t", " ", "c", "o", "n", "t", "e", "n", "t", " ", "e", "x", "t", "r", "a", "c", "t", "e", "d", " ", "f", "r", "o", "m", " ", "D", "O", "C", "X", " ", "f", "i", "l", "e">>)
       ELSE ProcessingResult(TRUE, "docx", r.text, <<>>, <<>>,
                [processing_method |-> <<"d", "o", "c", "x", "2", "t", "x", "t">>,
                 word_count |-> WordCount(r.text),
                 paragraph_count |-> ParagraphCount(r.text)],
                <<>>)

\* Mutant: a text of white space alone is accepted.
_handle_txt_not_stripped(filename, file_bytes) ==
    LET r == read_txt(file_bytes)
    IN IF r.raised THEN Failure("txt", <<"T", "e", "x", "t", " ", "p", "r", "o", "c", "e", "s", "s", "i", "n", "g", " ", "f", "a", "i", "l", "e", "d", ":", " ">> \o r.msg)
       ELSE IF r.text = <<>>
       THEN Failure("txt", <<"E", "m", "p", "t", "y", " ", "t", "e", "x", "t", " ", "f", "i", "l", "e">>)
       ELSE ProcessingResult(TRUE, "txt", r.text, <<>>, <<>>,
                [processing_method |-> <<"p", "l", "a", "i", "n", "_", "t", "e", "x", "t">>,
                 line_count |-> Count(r.text, <<"\n">>) + 1,
                 word_count |-> WordCount(r.text),
                 character_count |-> Len(r.text)],
                <<>>)

\* FileRouter._handle_txt
_handle_txt(filename, file_bytes) ==
    LET r == read_txt(file_bytes)
    IN IF r.raised THEN Failure("txt", <<"T", "e", "x", "t", " ", "p", "r", "o", "c", "e", "s", "s", "i", "n", "g", " ", "f", "a", "i", "l", "e", "d", ":", " ">> \o r.msg)
       ELSE IF r.text = <<>> \/ Blank(r.text)
       THEN Failure("txt", <<"E", "m", "p", "t", "y", " ", "t", "e", "x", "t", " ", "f", "i", "l", "e">>)
       ELSE ProcessingResult(TRUE, "txt", r.text, <<>>, <<>>,
                [processing_method |-> <<"p", "l", "a", "i", "n", "_", "t", "e", "x", "t">>,
                 line_count |-> Count(r.text, <<"\n">>) + 1,
                 word_count |-> WordCount(r.text),
                 character_count |-> Len(r.text)],
                <<>>)

\* the character ` of a code fence
Backtick == "<backtick>"

\* FileRouter._handle_md
_handle_md(filename, file_bytes) ==
    LET r == read_md(file_bytes)
        original_text == Decode(file_bytes.raw)
    IN IF r.raised THEN Failure("md", <<"M", "a", "r", "k", "d", "o", "w", "n", " ", "p", "r", "o", "c", "e", "s", "s", "i", "n", "g", " ", "f", "a", "i", "l", "e", "d", ":", " ">> \o r.msg)
       ELSE IF r.text = <<>> \/ Blank(r.text)
       THEN Failure("md", <<"E", "m", "p", "t", "y", " ", "m", "a", "r", "k", "d", "o", "w", "n", " ", "f", "i", "l", "e">>)
       ELSE ProcessingResult(TRUE, "md", r.text, <<>>, <<>>,
                [processing_method |-> <<"m", "a", "r", "k", "d", "o", "w", "n", "_", "p", "a", "r", "s", "e", "r">>,
                 header_count |-> Count(original_text, <<"#">>),
                 link_count |-> Count(original_text, <<"[">>),
                 code_block_count |-> Count(original_text, <<Backtick, Backtick, Backtick>>) \div 2,
                 word_count |-> WordCount(r.text)],
                <<>>)

\* self._handlers: DOC shares the DOCX handler; UNKNOWN has none
HandledTypes == {"pdf", "docx", "doc", "txt", "md"}

\* handler(filename, file_bytes) inside the try of route_file: the result, or the
\* exception that leaves the handler (each handler catches Exception itself, so
\* none does)
Handle(file_type, filename, file_bytes) ==
    [raised |-> FALSE, msg |-> <<>>,
     value |-> IF file_type = "pdf" THEN _handle_pdf(filename, file_bytes)
               ELSE IF file_type \in {"docx", "doc"} THEN _handle_docx(filename, file_bytes)
               ELSE IF file_type = "txt" THEN _handle_txt(filename, file_bytes)
               ELSE _handle_md(filename, file_bytes)]

\* the ProcessingResult of route_file(filename, file_bytes)
RouteResult(filename, file_bytes) ==
    LET file_type == detect_file_type(filename)
        handled == Handle(file_type, filename, file_bytes)
    IN IF file_type = "unknown"
       THEN Failure(file_type, <<"U", "n", "s", "u", "p", "p", "o", "r", "t", "e", "d", " ", "f", "i", "l", "e", " ", "t", "y", "p", "e", ":", " ">> \o SplitExt(filename))
       ELSE IF file_type \notin HandledTypes
       THEN Failure(file_type, <<"N", "o", " ", "h", "a", "n", "d", "l", "e", "r", " ", "a", "v", "a", "i", "l", "a", "b", "l", "e", " ", "f", "o", "r", " ">> \o <<file_type>>)
       ELSE IF handled.raised
       THEN Failure(file_type, <<"P", "r", "o", "c", "e", "s", "s", "i", "n", "g", " ", "e", "r", "r", "o", "r", ":", " ">> \o handled.msg)
       ELSE handled.value

ZeroStats ==
    [files_processed |-> 0, successful_processing |-> 0, failed_processing |-> 0,
     files_by_type |-> [t \in FileTypes |-> 0]]

\* Mutant: the fallback extractor runs for every PDF.
_handle_pdf_calls_both(filename, file_bytes) == <<"read_pdf_with_images", "read_pdf">>

\* the extractors _handle_pdf invokes, in order
_handle_pdf_calls(filename, file_bytes) ==
    <<"read_pdf_with_images">>
    \o (IF read_pdf_with_images(file_bytes, filename).raised THEN <<"read_pdf">> ELSE <<>>)

\* the extractors route_file(filename, file_bytes) invokes, in order
ExtractorCalls(filename, file_bytes) ==
    LET file_type == detect_file_type(filename)
    IN IF file_type = "pdf" THEN _handle_pdf_calls(filename, file_bytes)
       ELSE IF file_type \in {"docx", "doc"} THEN <<"read_docx">>
       ELSE IF file_type = "txt" THEN <<"read_txt">>
       ELSE IF file_type = "md" THEN <<"read_md">>
       ELSE <<>>

\* before the first call
NoResult == [filename |-> <<>>, file_bytes |-> <<>>, outcome |-> "none", extractors |-> <<>>,
             value |-> Failure("unknown", <<"<no call>">>)]

RouterCall(op, arg, value) == [op |-> op, arg |-> arg, value |-> value]

\* route_file(filename, file_bytes) for the files of the model, computed once: the
\* ProcessingResult it returns and the extractors it invokes
RouteTable ==
    [filename \in FileNames |->
        [file_bytes \in FileBytes |->
            [value |-> RouteResult(filename, file_bytes),
             extractors |-> ExtractorCalls(filename, file_bytes)]]]

\* Mutant: a file of unknown type is not counted.
CountedKnownOnly(st, filename, file_bytes) ==
    LET r == RouteTable[filename][file_bytes].value
        file_type == detect_file_type(filename)
    IN IF file_type = "unknown" THEN st
       ELSE [files_processed |-> st.files_processed + 1,
             successful_processing |-> st.successful_processing + (IF r.success THEN 1 ELSE 0),
             failed_processing |-> st.failed_processing + (IF r.success THEN 0 ELSE 1),
             files_by_type |-> [st.files_by_type EXCEPT ![file_type] = @ + 1]]

\* self.stats after route_file(filename, file_bytes) ran on the counters st
Counted(st, filename, file_bytes) ==
    LET r == RouteTable[filename][file_bytes].value
        file_type == detect_file_type(filename)
    IN [files_processed |-> st.files_processed + 1,
        successful_processing |-> st.successful_processing + (IF r.success THEN 1 ELSE 0),
        failed_processing |-> st.failed_processing + (IF r.success THEN 0 ELSE 1),
        files_by_type |-> [st.files_by_type EXCEPT ![file_type] = @ + 1]]

\* FileRouter.route_file: the counters, then the result
route_file(filename, file_bytes) ==
    /\ stats.files_processed < MaxFiles
    /\ stats' = Counted(stats, filename, file_bytes)
    /\ result' = [filename |-> filename, file_bytes |-> file_bytes,
                  outcome |-> "returned",
                  extractors |-> RouteTable[filename][file_bytes].extractors,
                  value |-> RouteTable[filename][file_bytes].value]
    /\ routerCall' = RouterCall("route_file", <<>>, <<>>)
    /\ UNCHANGED <<ingestVars, storeVars, analyzerVars, uploadVars, threadVars>>

MaxBatch == 2       \* files of one route_multiple_files call at most

\* the entries the dictionaries handed to route_multiple_files are made of
BatchFiles ==
    { [filename |-> F_a_pdf, file_bytes |-> PdfBytes(Ok, Ok, <<PageRich>>)],
      [filename |-> F_d_docx, file_bytes |-> DocxBytes(Fails(MsgEmpty), <<>>)],
      [filename |-> F_g_exe, file_bytes |-> TextBytes(<<InvalidByte>>, <<>>)],
      [filename |-> F_c_md, file_bytes |-> TextBytes(<<"#", " ", "H", "i", InvalidByte>>, TextHi)] }

\* the dictionaries, as their items in insertion order: no filename twice
Batches ==
    { files \in UNION { [1..n -> BatchFiles] : n \in 0..MaxBatch } :
        \A i, j \in 1..Len(files) : files[i].filename = files[j].filename => i = j }

\* self.stats after the loop of route_multiple_files ran on the counters st
RECURSIVE CountedAll(_, _)
CountedAll(st, files) ==
    IF files = <<>> THEN st
    ELSE CountedAll(Counted(st, Head(files).filename, Head(files).file_bytes), Tail(files))

\* FileRouter.route_multiple_files: route_file for each item, in order; the
\* value is the dictionary filename -> ProcessingResult
route_multiple_files(files) ==
    /\ stats.files_processed + Len(files) <= MaxFiles
    /\ stats' = CountedAll(stats, files)
    /\ result' = NoResult
    /\ routerCall' = RouterCall("route_multiple_files", files,
                                [i \in 1..Len(files) |->
                                    [key |-> files[i].filename,
                                     value |-> RouteTable[files[i].filename][files[i].file_bytes].value]])
    /\ UNCHANGED <<ingestVars, storeVars, analyzerVars, uploadVars, threadVars>>

\* FileRouter.detect_file_type called on the router
detect_file_type_call(filename) ==
    /\ routerCall' = RouterCall("detect_file_type", filename, detect_file_type(filename))
    /\ result' = NoResult
    /\ UNCHANGED stats
    /\ UNCHANGED <<ingestVars, storeVars, analyzerVars, uploadVars, threadVars>>

\* Mutant: reading the statistics clears the counters.
get_statistics_clearing ==
    /\ routerCall' = RouterCall("get_statistics", <<>>,
                        [stats |-> stats, success_rate |-> [num |-> 0, den |-> 1]])
    /\ result' = NoResult
    /\ stats' = ZeroStats
    /\ UNCHANGED <<ingestVars, storeVars, analyzerVars, uploadVars, threadVars>>

\* FileRouter.get_statistics: a copy of the counters with the success rate,
\* (successful_processing / files_processed) * 100, or 0 before the first file
get_statistics ==
    /\ routerCall' = RouterCall("get_statistics", <<>>,
                        [stats |-> stats,
                         success_rate |->
                            IF stats.files_processed > 0
                            THEN [num |-> 100 * stats.successful_processing,
                                  den |-> stats.files_processed]
                            ELSE [num |-> 0, den |-> 1]])
    /\ result' = NoResult
    /\ UNCHANGED stats
    /\ UNCHANGED <<ingestVars, storeVars, analyzerVars, uploadVars, threadVars>>

\* FileRouter.reset_statistics
reset_statistics ==
    /\ stats' = ZeroStats
    /\ routerCall' = RouterCall("reset_statistics", <<>>, <<>>)
    /\ UNCHANGED result
    /\ UNCHANGED <<ingestVars, storeVars, analyzerVars, uploadVars, threadVars>>

RouteFile == \E filename \in FileNames, file_bytes \in FileBytes : route_file(filename, file_bytes)

RouteMultipleFiles == \E files \in Batches : route_multiple_files(files)

DetectFileType == \E filename \in FileNames : detect_file_type_call(filename)

RouterNext ==
    \/ RouteFile
    \/ RouteMultipleFiles
    \/ DetectFileType
    \/ get_statistics
    \/ reset_statistics

(***************************************************************************)
(* The content analyzer (routers/content_analyzer.py)                      *)
(***************************************************************************)

MaxIndicators == 3  \* matches the structure patterns find in one content at most

\* class ContentType(Enum): the members' values
ContentTypes ==
    {"text_only", "text_table", "text_table_image", "table_only", "image_only",
     "mixed_content", "empty", "structured_text"}

\* A float of the analyzer, kept exactly: the fraction num/den, and above = TRUE
\* when the double lies just above that fraction through rounding.
Float(num, den) == [num |-> num, den |-> den, above |-> FALSE]

\* a > b for a float a and the literal b = num/den
FloatGreater(a, num, den) ==
    \/ a.num * den > num * a.den
    \/ a.num * den = num * a.den /\ a.above

\* min(x, 1.0)
MinOne(x) == IF FloatGreater(x, 1, 1) THEN Float(1, 1) ELSE x

\* x * 1.5 in doubles: exact, except that 0.2 * 1.5 is 0.30000000000000004
TimesOneAndAHalf(x) ==
    [num |-> 3 * x.num, den |-> 2 * x.den, above |-> (5 * x.num = x.den)]

\* len(content.split('\n'))
LineCount(content) == Count(content, <<"\n">>) + 1

\* _analyze_structure(content, file_type)['structure_score']; structure_indicators
\* is the number of matches pattern.findall finds for the compiled patterns
_analyze_structure(content, file_type, structure_indicators) ==
    LET total_lines == LineCount(content)
        structure_score == MinOne(Float(structure_indicators,
                                        IF total_lines > 1 THEN total_lines ELSE 1))
    IN IF content = <<>> THEN Float(0, 1)
       ELSE IF file_type = "md" THEN MinOne(TimesOneAndAHalf(structure_score))
       ELSE structure_score

\* Mutant: text is structured from a score of 0.3 on.
_determine_content_type_from_03(has_text, has_tables, has_images, structure_score) ==
    IF ~has_text /\ ~has_tables /\ ~has_images
    THEN [content_type |-> "empty", confidence |-> 100]
    ELSE IF has_text /\ ~has_tables /\ ~has_images
    THEN IF ~FloatGreater(Float(3, 10), structure_score.num, structure_score.den)
         THEN [content_type |-> "structured_text", confidence |-> 90]
         ELSE [content_type |-> "text_only", confidence |-> 95]
    ELSE IF has_tables /\ ~has_text /\ ~has_images
    THEN [content_type |-> "table_only", confidence |-> 90]
    ELSE IF has_images /\ ~has_text /\ ~has_tables
    THEN [content_type |-> "image_only", confidence |-> 90]
    ELSE IF has_text /\ has_tables /\ has_images
    THEN [content_type |-> "text_table_image", confidence |-> 95]
    ELSE IF has_text /\ has_tables /\ ~has_images
    THEN [content_type |-> "text_table", confidence |-> 90]
    ELSE [content_type |-> "mixed_content", confidence |-> 70]

\* ContentAnalyzer._determine_content_type; the confidence in hundredths
_determine_content_type(has_text, has_tables, has_images, structure_score) ==
    IF ~has_text /\ ~has_tables /\ ~has_images
    THEN [content_type |-> "empty", confidence |-> 100]
    ELSE IF has_text /\ ~has_tables /\ ~has_images
    THEN IF FloatGreater(structure_score, 3, 10)
         THEN [content_type |-> "structured_text", confidence |-> 90]
         ELSE [content_type |-> "text_only", confidence |-> 95]
    ELSE IF has_tables /\ ~has_text /\ ~has_images
    THEN [content_type |-> "table_only", confidence |-> 90]
    ELSE IF has_images /\ ~has_text /\ ~has_tables
    THEN [content_type |-> "image_only", confidence |-> 90]
    ELSE IF has_text /\ has_tables /\ has_images
    THEN [content_type |-> "text_table_image", confidence |-> 95]
    ELSE IF has_text /\ has_tables /\ ~has_images
    THEN [content_type |-> "text_table", confidence |-> 90]
    ELSE [content_type |-> "mixed_content", confidence |-> 70]

Min(a, b) == IF a < b THEN a ELSE b
Max(a, b) == IF a > b THEN a ELSE b

\* Mutant: the minimum is enforced before the adjustment for content density.
_recommend_processing_strategy_floor_first(content_type, text_length, table_count, image_count) ==
    LET base == IF content_type = "text_only" THEN [chunk_size |-> 1000, strategy |-> "text_only"]
                ELSE IF content_type = "structured_text" THEN [chunk_size |-> 600, strategy |-> "structure_aware"]
                ELSE IF content_type = "text_table" THEN [chunk_size |-> 1200, strategy |-> "table_aware"]
                ELSE IF content_type = "text_table_image" THEN [chunk_size |-> 1500, strategy |-> "multimedia_aware"]
                ELSE IF content_type = "table_only" THEN [chunk_size |-> 2000, strategy |-> "table_focused"]
                ELSE [chunk_size |-> 800, strategy |-> "standard"]
        by_length == IF text_length < 2000 THEN Min(base.chunk_size, text_length \div 2)
                     ELSE IF text_length > 50000 THEN Min(base.chunk_size + 300, 2000)
                     ELSE base.chunk_size
        floored == Max(by_length, 200)
        by_density == IF table_count > 5 \/ image_count > 10 THEN floored + 200 ELSE floored
    IN [chunk_size |-> by_density, strategy |-> base.strategy]

\* Mutant: a long document gets 300 more, without the cap of 2000.
_recommend_processing_strategy_uncapped(content_type, text_length, table_count, image_count) ==
    LET base == IF content_type = "text_only" THEN [chunk_size |-> 1000, strategy |-> "text_only"]
                ELSE IF content_type = "structured_text" THEN [chunk_size |-> 600, strategy |-> "structure_aware"]
                ELSE IF content_type = "text_table" THEN [chunk_size |-> 1200, strategy |-> "table_aware"]
                ELSE IF content_type = "text_table_image" THEN [chunk_size |-> 1500, strategy |-> "multimedia_aware"]
                ELSE IF content_type = "table_only" THEN [chunk_size |-> 2000, strategy |-> "table_focused"]
                ELSE [chunk_size |-> 800, strategy |-> "standard"]
        by_length == IF text_length < 2000 THEN Min(base.chunk_size, text_length \div 2)
                     ELSE IF text_length > 50000 THEN base.chunk_size + 300
                     ELSE base.chunk_size
        by_density == IF table_count > 5 \/ image_count > 10 THEN by_length + 200 ELSE by_length
    IN [chunk_size |-> Max(by_density, 200), strategy |-> base.strategy]

\* ContentAnalyzer._recommend_processing_strategy: (chunk_size, strategy);
\* structure_score is a parameter the function never reads
_recommend_processing_strategy(content_type, text_length, table_count, image_count) ==
    LET base == IF content_type = "text_only" THEN [chunk_size |-> 1000, strategy |-> "text_only"]
                ELSE IF content_type = "structured_text" THEN [chunk_size |-> 600, strategy |-> "structure_aware"]
                ELSE IF content_type = "text_table" THEN [chunk_size |-> 1200, strategy |-> "table_aware"]
                ELSE IF content_type = "text_table_image" THEN [chunk_size |-> 1500, strategy |-> "multimedia_aware"]
                ELSE IF content_type = "table_only" THEN [chunk_size |-> 2000, strategy |-> "table_focused"]
                ELSE [chunk_size |-> 800, strategy |-> "standard"]
        by_length == IF text_length < 2000 THEN Min(base.chunk_size, text_length \div 2)
                     ELSE IF text_length > 50000 THEN Min(base.chunk_size + 300, 2000)
                     ELSE base.chunk_size
        by_density == IF table_count > 5 \/ image_count > 10 THEN by_length + 200 ELSE by_length
    IN [chunk_size |-> Max(by_density, 200), strategy |-> base.strategy]

\* processing_result.metadata.get(key, default)
MetadataGet(metadata, key, default) ==
    IF key \in DOMAIN metadata THEN metadata[key] ELSE default

\* ContentAnalysis(content_type, confidence, ...): the other fields default to
\* False, 0, 0.0, 800 and "standard"; text_quality_score is left out
ContentAnalysis(content_type, confidence) ==
    [content_type |-> content_type, confidence |-> confidence,
     has_text |-> FALSE, has_tables |-> FALSE, has_images |-> FALSE, has_structure |-> FALSE,
     text_length |-> 0, table_count |-> 0, image_count |-> 0, page_count |-> 0,
     structure_score |-> Float(0, 1),
     recommended_chunk_size |-> 800, recommended_strategy |-> "standard"]

\* Mutant: a failed outcome is classified like a successful one.
AnalysisOfIgnoringSuccess(processing_result, structure_indicators) ==
    LET content == processing_result.content
        tables == processing_result.tables
        images == processing_result.images
        has_text == content # <<>> /\ ~Blank(content)
        has_tables == Len(tables) > 0
        has_images == Len(images) > 0
        structure_score ==
            IF has_text
            THEN _analyze_structure(content, processing_result.file_type, structure_indicators)
            ELSE Float(0, 1)
        determined == _determine_content_type(has_text, has_tables, has_images, structure_score)
        recommended == _recommend_processing_strategy(determined.content_type, Len(content),
                                                      Len(tables), Len(images))
    IN [content_type |-> determined.content_type, confidence |-> determined.confidence,
        has_text |-> has_text, has_tables |-> has_tables, has_images |-> has_images,
        has_structure |-> FloatGreater(structure_score, 3, 10),
        text_length |-> Len(content), table_count |-> Len(tables),
        image_count |-> Len(images),
        page_count |-> MetadataGet(processing_result.metadata, "page_count", 1),
        structure_score |-> structure_score,
        recommended_chunk_size |-> recommended.chunk_size,
        recommended_strategy |-> recommended.strategy]

\* the ContentAnalysis that analyze_content(processing_result) returns
AnalysisOf(processing_result, structure_indicators) ==
    IF ~processing_result.success
    THEN ContentAnalysis("empty", 100)
    ELSE LET content == processing_result.content
             tables == processing_result.tables
             images == processing_result.images
             has_text == content # <<>> /\ ~Blank(content)
             has_tables == Len(tables) > 0
             has_images == Len(images) > 0
             structure_score ==
                 IF has_text
                 THEN _analyze_structure(content, processing_result.file_type, structure_indicators)
                 ELSE Float(0, 1)
             determined == _determine_content_type(has_text, has_tables, has_images, structure_score)
             recommended == _recommend_processing_strategy(determined.content_type, Len(content),
                                                           Len(tables), Len(images))
         IN [content_type |-> determined.content_type, confidence |-> determined.confidence,
             has_text |-> has_text, has_tables |-> has_tables, has_images |-> has_images,
             has_structure |-> FloatGreater(structure_score, 3, 10),
             text_length |-> Len(content), table_count |-> Len(tables),
             image_count |-> Len(images),
             page_count |-> MetadataGet(processing_result.metadata, "page_count", 1),
             structure_score |-> structure_score,
             recommended_chunk_size |-> recommended.chunk_size,
             recommended_strategy |-> recommended.strategy]

\* Outcomes handed to analyze_content: what route_file returns, and outcomes a
\* caller builds with ProcessingResult(...), among them failed ones that carry
\* content, tables and images.
TextLines == <<"a", "\n", "b", "\n", "c", "\n", "d", "\n", "e">>
TextTenLines == TextLines \o <<"\n">> \o TextLines
SomeTable == [page |-> 1, table_index |-> 0, data |-> DataFrame(GridTwoRows), bbox |-> <<0, 0, 1, 1>>]
SomeImage == ImgPath(F_a_pdf, 1, 0)

BuiltResults ==
    { ProcessingResult(success, file_type, content, tables, images, NoMetadata, error)
      : success \in BOOLEAN, file_type \in {"pdf", "md", "unknown"},
        content \in {<<>>, TextBlank, TextLines, TextTenLines},
        tables \in {<<>>, <<SomeTable>>}, images \in {<<>>, <<SomeImage>>},
        error \in {<<>>, MsgBadPdf} }

RoutedResults == { RouteTable[filename][file_bytes].value : filename \in FileNames, file_bytes \in FileBytes }

NoAnalysis == [called |-> FALSE, given |-> Failure("unknown", <<"<no call>">>),
               processing_result |-> Failure("unknown", <<"<no call>">>),
               structure_indicators |-> 0, value |-> ContentAnalysis("empty", 100)]

NoRecommendation ==
    [called |-> FALSE, content_type |-> "empty", text_length |-> 0, table_count |-> 0,
     image_count |-> 0, chunk_size |-> 0, strategy |-> "none"]

\* ContentAnalyzer.analyze_content: given is the outcome as it was handed in,
\* processing_result the same object after the call
analyze_content(processing_result, structure_indicators) ==
    /\ analysis' = [called |-> TRUE, given |-> processing_result,
                    processing_result |-> processing_result,
                    structure_indicators |-> structure_indicators,
                    value |-> AnalysisOf(processing_result, structure_indicators)]
    /\ recommendation' = NoRecommendation
    /\ UNCHANGED <<ingestVars, routerVars, storeVars, uploadVars, threadVars>>

\* the arguments of the calls of _recommend_processing_strategy that are followed
TextLengths == {0, 1, 100, 399, 400, 401, 1199, 1999, 2000, 2001, 50000, 50001}
TableCounts == {0, 5, 6}
ImageCounts == {0, 10, 11}

\* a call of _recommend_processing_strategy
recommend_processing_strategy(content_type, text_length, table_count, image_count) ==
    LET r == _recommend_processing_strategy(content_type, text_length, table_count, image_count)
    IN /\ recommendation' = [called |-> TRUE, content_type |-> content_type,
                             text_length |-> text_length, table_count |-> table_count,
                             image_count |-> image_count,
                             chunk_size |-> r.chunk_size, strategy |-> r.strategy]
       /\ analysis' = NoAnalysis
       /\ UNCHANGED <<ingestVars, routerVars, storeVars, uploadVars, threadVars>>

AnalyzeContent ==
    \E processing_result \in BuiltResults \cup RoutedResults,
       structure_indicators \in 0..MaxIndicators :
        analyze_content(processing_result, structure_indicators)

RecommendProcessingStrategy ==
    \E content_type \in ContentTypes, text_length \in TextLengths,
       table_count \in TableCounts, image_count \in ImageCounts :
        recommend_processing_strategy(content_type, text_length, table_count, image_count)

AnalyzerNext ==
    \/ AnalyzeContent
    \/ RecommendProcessingStrategy

(***************************************************************************)
(* The vector store (services/vectorstore.py)                              *)
(***************************************************************************)

MaxPoints == 3      \* points the collection holds at most
MaxItems == 2       \* items of one index_documents call at most
MaxOpId == 1        \* operation ids the provider reports: 0..MaxOpId

SearchK == 1000      \* similarity_search("", k=1000, filter=...)
ScrollLimit == 1000  \* client.scroll(..., limit=1000, ...)


\* Sources of indexed chunks; SourceArgs adds a file that is never indexed.
Sources == {F_a_pdf, F_b_txt}
SourceArgs == Sources \cup {F_c_md}

\* The items handed to index_documents: chunks of load_and_split, and one item
\* whose metadata has no "source" key (it.get("metadata", {})).
Items ==
    { [content |-> <<"h", "i">>, metadata |-> [source |-> F_a_pdf, chunk |-> 0]],
      [content |-> <<"o", "k">>, metadata |-> [source |-> F_a_pdf, chunk |-> 1]],
      [content |-> <<"h", "i">>, metadata |-> [source |-> F_b_txt, chunk |-> 0]],
      [content |-> <<"o", "k">>, metadata |-> [source |-> None, chunk |-> 0]] }

ItemSeqs == UNION { [1..n -> Items] : n \in 0..MaxItems }

OperationIds == 0..MaxOpId

NoCall == [op |-> "none", arg |-> <<>>, fault |-> FALSE, outcome |-> "returned", value |-> 0]

\* uuid4 point ids: n ids that no stored point has (the n smallest free ones).
RECURSIVE FreshIds(_, _)
FreshIds(used, n) ==
    IF n = 0 THEN <<>>
    ELSE LET i == CHOOSE i \in 1..(Cardinality(used) + 1) :
                      i \notin used /\ \A j \in 1..(i - 1) : j \in used
         IN <<i>> \o FreshIds(used \cup {i}, n - 1)

PointIds == {p.id : p \in points}

\* Mutant: the point id is the item's position, so a repeated upload overwrites.
NewPointsByPosition(items) ==
    { [id |-> i, page_content |-> items[i].content, metadata |-> items[i].metadata]
      : i \in 1..Len(items) }

\* Document(page_content=it["content"], metadata=it.get("metadata", {})), stored
\* by add_documents under a fresh id.
NewPoints(items) ==
    LET ids == FreshIds(PointIds, Len(items))
    IN { [id |-> ids[i], page_content |-> items[i].content, metadata |-> items[i].metadata]
         : i \in 1..Len(items) }

\* Mutant: the filter compares nothing.
MatchAnySource(p, source_filename) == TRUE

\* FieldCondition(key="metadata.source", match=MatchValue(value=source_filename))
MatchSource(p, source_filename) == p.metadata.source = source_filename

\* Mutant: the empty filter matches no point.
MatchNothing(p) == FALSE

\* Filter(must=[]): the empty filter matches every point.
MatchAll(p) == TRUE

\* The pages a bounded scan of `limit` points can return: all points when they
\* fit, else any `limit` of them (the provider picks).
ScanPages(S, limit) ==
    IF Cardinality(S) <= limit THEN {S}
    ELSE {page \in SUBSET S : Cardinality(page) = limit}

\* Mutant: list(sources) without sorted(): some order of the set.
RECURSIVE UnsortedList(_)
UnsortedList(S) ==
    IF S = {} THEN <<>>
    ELSE LET m == CHOOSE m \in S : \A o \in S \ {m} : StrLess(o, m)
         IN <<m>> \o UnsortedList(S \ {m})

\* sorted(list(sources))
RECURSIVE SortedList(_)
SortedList(S) ==
    IF S = {} THEN <<>>
    ELSE LET m == CHOOSE m \in S : \A o \in S \ {m} : StrLess(m, o)
         IN <<m>> \o SortedList(S \ {m})

\* if source: (None and "" are falsy)
Truthy(source) == source # None /\ source # <<>>

\* the loop of list_sources over one scanned page
SourcesOfPage(page) == {p.metadata.source : p \in {q \in page : Truthy(q.metadata.source)}}

\* What a call leaves in the history variables.
History(op, arg, outcome, value) ==
    /\ UNCHANGED <<ingestVars, routerVars, analyzerVars, uploadVars, threadVars>>
    /\ prevDelete' = IF call.op = "delete_by_source" /\ call.outcome = "returned"
                     THEN call.arg ELSE None
    /\ cleared' = IF op = "index_documents" THEN FALSE
                  ELSE IF op = "clear_collection" /\ outcome = "returned" /\ value = TRUE
                       THEN TRUE
                  ELSE cleared

Return(op, arg, fault, value) ==
    /\ call' = [op |-> op, arg |-> arg, fault |-> fault, outcome |-> "returned",
                value |-> value]
    /\ History(op, arg, "returned", value)

\* the exception of the provider leaves the function
Raise(op, arg) ==
    /\ call' = [op |-> op, arg |-> arg, fault |-> TRUE, outcome |-> "raised",
                value |-> 0]
    /\ History(op, arg, "raised", 0)

\* index_documents(items): no try; vs.add_documents(documents); return len(documents)
index_documents(items, fault) ==
    /\ Cardinality(points) + Len(items) <= MaxPoints
    /\ IF fault
       THEN /\ points' = points
            /\ Raise("index_documents", items)
       ELSE /\ points' = points \cup NewPoints(items)
            /\ Return("index_documents", items, FALSE, Len(items))

\* search_by_source(source_filename): no try; at most k=1000 points that match
search_by_source(source_filename, fault) ==
    /\ points' = points
    /\ IF fault
       THEN Raise("search_by_source", source_filename)
       ELSE \E found \in ScanPages({p \in points : MatchSource(p, source_filename)}, SearchK) :
                Return("search_by_source", source_filename, FALSE, found)

\* delete_by_source(source_filename): no try around client.delete;
\* return result.operation_id if result else 0
delete_by_source(source_filename, fault, operation_id) ==
    IF fault
    THEN /\ points' = points
         /\ Raise("delete_by_source", source_filename)
    ELSE /\ points' = {p \in points : ~MatchSource(p, source_filename)}
         /\ Return("delete_by_source", source_filename, FALSE, operation_id)

\* list_sources(): try: scroll, collect, sort; except: return []
list_sources(fault) ==
    /\ points' = points
    /\ IF fault
       THEN Return("list_sources", <<>>, TRUE, <<>>)
       ELSE \E page \in ScanPages(points, ScrollLimit) :
                Return("list_sources", <<>>, FALSE, SortedList(SourcesOfPage(page)))

\* clear_collection(): try: client.delete(all); return True; except: return False
clear_collection(fault) ==
    IF fault
    THEN /\ points' = points
         /\ Return("clear_collection", <<>>, TRUE, FALSE)
    ELSE /\ points' = {p \in points : ~MatchAll(p)}
         /\ Return("clear_collection", <<>>, FALSE, TRUE)

IndexDocuments == \E items \in ItemSeqs, fault \in BOOLEAN : index_documents(items, fault)
SearchBySource == \E s \in SourceArgs, fault \in BOOLEAN : search_by_source(s, fault)
DeleteBySource ==
    \E s \in SourceArgs, fault \in BOOLEAN, oid \in OperationIds : delete_by_source(s, fault, oid)
ListSources == \E fault \in BOOLEAN : list_sources(fault)
ClearCollection == \E fault \in BOOLEAN : clear_collection(fault)

StoreNext ==
    \/ IndexDocuments
    \/ SearchBySource
    \/ DeleteBySource
    \/ ListSources
    \/ ClearCollection

(***************************************************************************)
(* The upload flow (ui/main_ui.py)                                         *)
(***************************************************************************)

MaxUpload == 2      \* files of one upload batch at most

\* AppConfig.chunk_size, AppConfig.chunk_overlap: the defaults, and a smaller
\* CHUNK_OVERLAP from the environment
Configs ==
    { [chunk_size |-> 800, chunk_overlap |-> 120],
      [chunk_size |-> 800, chunk_overlap |-> 20] }

\* uploaded files (the uploader takes pdf, docx, txt and md): name and bytes
UploadFiles ==
    { [name |-> F_a_pdf, file_bytes |-> PdfBytes(Ok, Ok, <<PageImage>>)],
      [name |-> F_a_pdf, file_bytes |-> PdfBytes(Ok, Ok, <<PageBlank>>)],
      [name |-> F_b_txt, file_bytes |-> TextBytes(<<"#", " ", "H", "i", InvalidByte>>, TextHi)],
      [name |-> F_b_txt, file_bytes |-> TextBytes(<<" ", "\n">>, <<>>)],
      [name |-> F_d_docx, file_bytes |-> DocxBytes(Fails(MsgEmpty), <<>>)] }

\* uploaded_files: "if uploaded_files and st.button(...)" needs one file at least
UploadBatches == UNION { [1..n -> UploadFiles] : n \in 1..MaxUpload }

NoUpload ==
    [phase |-> "idle", cfg |-> [chunk_size |-> 0, chunk_overlap |-> 0], files |-> <<>>,
     pos |-> 0, items |-> <<>>, chunked |-> <<>>, index_calls |-> 0, total |-> 0]

\* Mutant: the overlap is the configured one whatever size is recommended.
UploadSplitParamsConfiguredOverlap(cfg, processing_result, content_analysis) ==
    IF processing_result.success
    THEN [chunk_size |-> content_analysis.recommended_chunk_size,
          chunk_overlap |-> cfg.chunk_overlap]
    ELSE [chunk_size |-> cfg.chunk_size, chunk_overlap |-> cfg.chunk_overlap]

\* the chunk_size and chunk_overlap the loop hands to load_and_split
UploadSplitParams(cfg, processing_result, content_analysis) ==
    IF processing_result.success
    THEN LET recommended_size == content_analysis.recommended_chunk_size
         IN [chunk_size |-> recommended_size,
             chunk_overlap |-> Min(cfg.chunk_overlap, recommended_size \div 4)]
    ELSE [chunk_size |-> cfg.chunk_size, chunk_overlap |-> cfg.chunk_overlap]

\* the button was pressed: router = FileRouter(), items = []
upload_button(files, cfg) ==
    /\ upload.phase = "idle"
    /\ upload' = [NoUpload EXCEPT !.phase = "files", !.cfg = cfg, !.files = files]
    /\ UNCHANGED <<ingestVars, routerVars, storeVars, analyzerVars, threadVars>>

\* what the loop computes for a file before it chunks it: the outcome of
\* route_file, for a routed file the size analyze_content recommends (the
\* analyzer's regular expressions find any number of structure indicators),
\* and the chunk_size and chunk_overlap for load_and_split
UploadAnalyses(cfg, f) ==
    { LET content_analysis == AnalysisOf(processing_result, structure_indicators)
      IN [success |-> processing_result.success,
          recommended_size |-> IF processing_result.success
                               THEN content_analysis.recommended_chunk_size ELSE 0,
          params |-> UploadSplitParams(cfg, processing_result, content_analysis)]
      : processing_result \in {RouteTable[f.name][f.file_bytes].value},
        structure_indicators \in 0..MaxIndicators }

\* what one pass of "for f in uploaded_files" leaves of the batch: the file is
\* routed, analysed when routing succeeded, and chunked; an exception of
\* load_and_split ends the try block
UploadedFile(analysed, sp) ==
    LET f == upload.files[upload.pos + 1]
    IN [upload EXCEPT
          !.pos = @ + 1,
          !.chunked = Append(@, [name |-> f.name, success |-> analysed.success,
                                 recommended_size |-> analysed.recommended_size,
                                 chunk_size |-> sp.chunk_size,
                                 chunk_overlap |-> sp.chunk_overlap,
                                 outcome |-> sp.outcome, chunks |-> Len(sp.results)]),
          !.items = IF sp.outcome = "returned" THEN @ \o sp.results ELSE @,
          !.phase = IF sp.outcome = "returned" THEN "files" ELSE "failed"]

\* Mutant: a file whose chunking raises is skipped and the loop goes on.
upload_file_skipping ==
    /\ upload.phase = "files"
    /\ upload.pos < Len(upload.files)
    /\ LET f == upload.files[upload.pos + 1]
       IN \E analysed \in UploadAnalyses(upload.cfg, f) :
             \E sp \in SplitOutcomes(f.name, f.file_bytes, analysed.params) :
                upload' = [UploadedFile(analysed, sp) EXCEPT !.phase = "files"]
    /\ UNCHANGED <<ingestVars, routerVars, storeVars, analyzerVars, threadVars>>

\* one pass of the loop over the uploaded files
upload_file ==
    /\ upload.phase = "files"
    /\ upload.pos < Len(upload.files)
    /\ LET f == upload.files[upload.pos + 1]
       IN \E analysed \in UploadAnalyses(upload.cfg, f) :
             \E sp \in SplitOutcomes(f.name, f.file_bytes, analysed.params) :
                upload' = UploadedFile(analysed, sp)
    /\ UNCHANGED <<ingestVars, routerVars, storeVars, analyzerVars, threadVars>>

\* after the loop: "if items: total = index_documents(items)", else the message
\* that no chunk was made; an exception of index_documents ends the try block
upload_index(fault) ==
    /\ upload.phase = "files"
    /\ upload.pos = Len(upload.files)
    /\ IF upload.items = <<>>
       THEN /\ upload' = [upload EXCEPT !.phase = "done"]
            /\ UNCHANGED storeVars
       ELSE /\ upload' = [upload EXCEPT
                            !.phase = IF fault THEN "failed" ELSE "done",
                            !.index_calls = @ + 1,
                            !.total = IF fault THEN 0 ELSE Len(upload.items)]
            /\ points' = IF fault THEN points ELSE points \cup NewPoints(upload.items)
            /\ call' = [op |-> "index_documents", arg |-> upload.items, fault |-> fault,
                        outcome |-> IF fault THEN "raised" ELSE "returned",
                        value |-> IF fault THEN 0 ELSE Len(upload.items)]
            /\ prevDelete' = IF call.op = "delete_by_source" /\ call.outcome = "returned"
                             THEN call.arg ELSE None
            /\ cleared' = FALSE
    /\ UNCHANGED <<ingestVars, routerVars, analyzerVars, threadVars>>

UploadButton == \E files \in UploadBatches, cfg \in Configs : upload_button(files, cfg)

UploadIndex == \E fault \in BOOLEAN : upload_index(fault)

UploadNext ==
    \/ UploadButton
    \/ upload_file
    \/ UploadIndex

(***************************************************************************)
(* Threads sharing one FileRouter (routers/file_router.py)                 *)
(*                                                                         *)
(* route_file takes no lock.  Each "self.stats[...] += 1" loads the        *)
(* counter, adds one and stores the sum; another thread may run between    *)
(* the load and the store.                                                 *)
(***************************************************************************)

NumThreads == 2     \* threads calling route_file on the one router

Threads == 1..NumThreads

\* the calls the threads make
ThreadFiles ==
    { [filename |-> F_b_txt, file_bytes |-> TextBytes(<<"#", " ", "H", "i", InvalidByte>>, TextHi)],
      [filename |-> F_b_txt, file_bytes |-> TextBytes(<<" ", "\n">>, <<>>)],
      [filename |-> F_g_exe, file_bytes |-> PdfBytes(Ok, Ok, <<PageBlank>>)] }

NoThread == [pc |-> "idle", filename |-> <<>>, file_bytes |-> <<>>, loaded |-> 0]

NoThreads == [t \in Threads |-> NoThread]

\* the statement after the one a thread is at
NextPc(pc) ==
    CASE pc = "files_processed" -> "files_by_type"
      [] pc = "files_by_type" -> "outcome"
      [] pc = "outcome" -> "done"

\* the counter the statement a thread is at increments: files_processed,
\* files_by_type[file_type.value], then successful_processing or
\* failed_processing as the call ended
ThreadCounter(th) ==
    CASE th.pc = "files_processed" -> <<"files_processed">>
      [] th.pc = "files_by_type" -> <<"files_by_type", detect_file_type(th.filename)>>
      [] th.pc = "outcome" ->
            IF RouteTable[th.filename][th.file_bytes].value.success
            THEN <<"successful_processing">>
            ELSE <<"failed_processing">>

CounterValue(st, counter) ==
    IF Len(counter) = 1 THEN st[counter[1]] ELSE st[counter[1]][counter[2]]

CounterStored(st, counter, v) ==
    IF Len(counter) = 1
    THEN [st EXCEPT ![counter[1]] = v]
    ELSE [st EXCEPT ![counter[1]][counter[2]] = v]

\* a thread enters route_file(filename, file_bytes)
thread_call(t, filename, file_bytes) ==
    /\ threads[t].pc = "idle"
    /\ threads' = [threads EXCEPT ![t] = [pc |-> "files_processed", filename |-> filename,
                                          file_bytes |-> file_bytes, loaded |-> 0]]
    /\ UNCHANGED <<ingestVars, routerVars, storeVars, analyzerVars, uploadVars>>

\* the load of "+= 1": the thread reads the counter
thread_load(t) ==
    /\ threads[t].pc \in {"files_processed", "files_by_type", "outcome"}
    /\ threads[t].loaded = 0
    /\ threads' = [threads EXCEPT ![t].loaded = CounterValue(stats, ThreadCounter(threads[t])) + 1]
    /\ UNCHANGED <<ingestVars, routerVars, storeVars, analyzerVars, uploadVars>>

\* Mutant: the increment is one step on the counter as it is now.
thread_store_atomic(t) ==
    /\ threads[t].pc \in {"files_processed", "files_by_type", "outcome"}
    /\ threads[t].loaded > 0
    /\ stats' = CounterStored(stats, ThreadCounter(threads[t]),
                              CounterValue(stats, ThreadCounter(threads[t])) + 1)
    /\ threads' = [threads EXCEPT ![t].pc = NextPc(@), ![t].loaded = 0]
    /\ UNCHANGED <<ingestVars, result, routerCall, storeVars, analyzerVars, uploadVars>>

\* the store of "+= 1": the thread writes the sum it computed from what it
\* read, and goes to the next statement
thread_store(t) ==
    /\ threads[t].pc \in {"files_processed", "files_by_type", "outcome"}
    /\ threads[t].loaded > 0
    /\ stats' = CounterStored(stats, ThreadCounter(threads[t]), threads[t].loaded)
    /\ threads' = [threads EXCEPT ![t].pc = NextPc(@), ![t].loaded = 0]
    /\ UNCHANGED <<ingestVars, result, routerCall, storeVars, analyzerVars, uploadVars>>

ThreadCall == \E t \in Threads, f \in ThreadFiles : thread_call(t, f.filename, f.file_bytes)

ThreadLoad == \E t \in Threads : thread_load(t)

ThreadStore == \E t \in Threads : thread_store(t)

ThreadsNext ==
    \/ ThreadCall
    \/ ThreadLoad
    \/ ThreadStore

(***************************************************************************)
(* Specifications                                                          *)
(***************************************************************************)

Init ==
    /\ split = NoSplit
    /\ stats = ZeroStats
    /\ result = NoResult
    /\ routerCall = RouterCall("none", <<>>, <<>>)
    /\ points = {}
    /\ call = NoCall
    /\ prevDelete = None
    /\ cleared = FALSE
    /\ analysis = NoAnalysis
    /\ recommendation = NoRecommendation
    /\ upload = NoUpload
    /\ threads = NoThreads

\* the vector store alone
StoreSpec == Init /\ [][StoreNext]_vars

\* one router alone
RouterSpec == Init /\ [][RouterNext]_vars

\* load_and_split alone
IngestSpec == Init /\ [][IngestNext]_vars

\* one content analyzer alone
AnalyzerSpec == Init /\ [][AnalyzerNext]_vars

\* one upload batch alone
UploadSpec == Init /\ [][UploadNext]_vars

\* threads on one router alone
ThreadsSpec == Init /\ [][ThreadsNext]_vars

Next ==
    \/ IngestNext
    \/ RouterNext
    \/ AnalyzerNext
    \/ StoreNext
    \/ UploadNext
    \/ ThreadsNext

Spec == Init /\ [][Next]_vars

(***************************************************************************)
(* Claims about chunking and linking                                       *)
(***************************************************************************)

SplitExtension == Lower(SplitExt(split.filename))

\* load_and_split returned chunks of a PDF that the advanced extractor read
SplitAdvancedPdf ==
    /\ split.outcome = "returned"
    /\ SplitExtension = <<".", "p", "d", "f">>
    /\ ~read_pdf_with_images(split.file_bytes, split.filename).raised

SplitTables == read_pdf_with_images(split.file_bytes, split.filename).tables_data

\* C1 (as claimed): for every table the advanced extractor kept, the reference
\* load_and_split searches for equals the reference the extractor embedded, and
\* every chunk that contains the whole embedded token has the table in
\* metadata['tables'].
C1_TableReferenceMatches ==
    SplitAdvancedPdf
    => \A k \in 1..Len(SplitTables) :
          LET t == SplitTables[k]
          IN /\ table_ref(split.filename, t)
                  = EmbeddedTableRef(split.filename, t.page, t.table_index)
             /\ \A i \in 1..Len(split.results) :
                   Contains(split.results[i].content,
                            TableToken(split.filename, t.page, t.table_index))
                   => \E j \in 1..Len(split.results[i].metadata.tables) :
                         split.results[i].metadata.tables[j] = t

\* C1, its second half alone: every chunk that contains the whole embedded token
\* has the table in metadata['tables'].
C1_TokenLinksTable ==
    SplitAdvancedPdf
    => \A k \in 1..Len(SplitTables) :
          LET t == SplitTables[k]
          IN \A i \in 1..Len(split.results) :
                Contains(split.results[i].content,
                         TableToken(split.filename, t.page, t.table_index))
                => \E j \in 1..Len(split.results[i].metadata.tables) :
                      split.results[i].metadata.tables[j] = t

\* the extensions the file input contract names
ContractExtensions == {<<".", "p", "d", "f">>, <<".", "d", "o", "c", "x">>, <<".", "d", "o", "c">>, <<".", "t", "x", "t">>, <<".", "m", "d">>, <<".", "m", "a", "r", "k", "d", "o", "w", "n">>}

\* C2 (as claimed): load_and_split raises ValueError exactly when the lower-cased
\* extension is outside {.pdf, .docx, .doc, .txt, .md, .markdown}, and accepts
\* every extension that detect_file_type maps to a type other than UNKNOWN.
C2_UnsupportedExtensionRaises ==
    split.outcome # "none"
    => /\ (split.outcome = "ValueError") <=> (SplitExtension \notin ContractExtensions)
       /\ detect_file_type(split.filename) # "unknown" => split.outcome # "ValueError"

\* What the code does: ValueError exactly outside SUPPORTED_EXTENSIONS.
ValueErrorOutsideSupported ==
    split.outcome # "none"
    => ((split.outcome = "ValueError") <=> (SplitExtension \notin SUPPORTED_EXTENSIONS))

\* the tables the advanced extractor kept for the file that was split, each with
\* the whole token embedded for it and the metadata key that carries it
SplitTableArtifacts ==
    { [key |-> "tables", value |-> t,
       token |-> TableToken(split.filename, t.page, t.table_index)]
      : t \in {SplitTables[k] : k \in 1..Len(SplitTables)} }

\* the same for the images the advanced extractor saved
SplitImageArtifacts ==
    LET filename == split.filename
        pages == split.file_bytes.pages
    IN UNION { { [key |-> "images", value |-> ImgPath(filename, n, k - 1),
                  token |-> ImageToken(filename, n, k - 1)]
                 : k \in {j \in 1..Len(pages[n].images) : ImageSaved(pages[n].images[j])} }
               : n \in 1..Len(pages) }

\* the chunks (by position) that contain the whole token of the artifact
ChunksHolding(a) ==
    {i \in 1..Len(split.results) : Contains(split.results[i].content, a.token)}

\* the chunks (by position) whose metadata carry the artifact
ChunksAttached(a) ==
    {i \in 1..Len(split.results) :
        LET m == split.results[i].metadata
        IN /\ a.key \in m.keys
           /\ IF a.key = "tables"
              THEN \E j \in 1..Len(m.tables) : m.tables[j] = a.value
              ELSE \E j \in 1..Len(m.images) : m.images[j] = a.value}

\* token integrity for one artifact
TokenIntegrity(a) ==
    /\ ChunksHolding(a) = {} => ChunksAttached(a) = {}
    /\ Cardinality(ChunksHolding(a)) = 1 => ChunksAttached(a) = ChunksHolding(a)

\* C11 (as claimed): a table or image whose whole token lies in no chunk is
\* attached to no chunk, and one whose whole token lies in exactly one chunk is
\* attached to that chunk and to no other.
C11_TokenIntegrity ==
    SplitAdvancedPdf
    => /\ \A a \in SplitTableArtifacts : TokenIntegrity(a)
       /\ \A a \in SplitImageArtifacts : TokenIntegrity(a)

\* C11, for images and its first half alone: an image whose whole token lies in
\* no chunk is attached to no chunk.
C11_CutImageTokenUnattached ==
    SplitAdvancedPdf
    => \A a \in SplitImageArtifacts : ChunksHolding(a) = {} => ChunksAttached(a) = {}

\* C11, for images and its second half alone, without overlap: an image whose
\* whole token lies in exactly one chunk is attached to that chunk only.
C11_WholeImageTokenAttachedOnce ==
    (SplitAdvancedPdf /\ split.chunk_overlap = 0)
    => \A a \in SplitImageArtifacts :
          Cardinality(ChunksHolding(a)) = 1 => ChunksAttached(a) = ChunksHolding(a)

\* the text load_and_split extracted from the file that was split
SplitText == Extract(SplitExtension, split.filename, split.file_bytes).text

\* C18: load_and_split returns the chunks in the order of the segmentation, the
\* metadata 'chunk' of the i-th chunk (from 0) is i, so the values are 0..n-1
\* without gap or repeat, metadata 'source' is the filename given, and the
\* answer generator renders exactly these two as "[source=S, chunk=N]".
C18_ChunkIndicesContiguous ==
    split.outcome = "returned"
    => /\ \A i \in 1..Len(split.results) :
             /\ split.results[i].metadata.chunk = i - 1
             /\ split.results[i].metadata.source = split.filename
             /\ ContextHeader(split.results[i].metadata)
                  = <<"[", "s", "o", "u", "r", "c", "e", "=">> \o split.filename
                    \o <<",", " ", "c", "h", "u", "n", "k", "=">> \o Dec(i - 1) \o <<"]">>
       /\ \E chunks \in SplitTexts(SplitText, split.chunk_size, split.chunk_overlap) :
             chunks = [i \in 1..Len(split.results) |-> split.results[i].content]

\* three chunks were returned, the last one with index 2
C18_Witness ==
    /\ split.outcome = "returned"
    /\ Len(split.results) = 3
    /\ split.results[3].metadata.chunk = 2
    /\ split.results[3].metadata.source = F_a_pdf

\* the artifacts load_and_split extracted from the file that was split
SplitExtracted == Extract(SplitExtension, split.filename, split.file_bytes)

\* the string load_and_split looks for in a chunk: the file name of an image,
\* the reference of a table
ImageReference(img_path) == BaseName(img_path)
TableReference(table_dict) == table_ref(split.filename, table_dict)

\* the positions, in extraction order, of the images and of the tables whose
\* reference string the chunk contains
ImagesReferredTo(chunk) ==
    { k \in 1..Len(SplitExtracted.image_paths) :
        Contains(chunk, ImageReference(SplitExtracted.image_paths[k])) }

TablesReferredTo(chunk) ==
    { k \in 1..Len(SplitExtracted.tables_data) :
        Contains(chunk, TableReference(SplitExtracted.tables_data[k])) }

\* the list holds the artifacts at the positions given, each once, in the
\* order of the positions
HoldsInOrder(list, artifacts, positions) ==
    /\ Len(list) = Cardinality(positions)
    /\ \A n \in 1..Len(list) :
          \E k \in positions :
             /\ list[n] = artifacts[k]
             /\ Cardinality({ j \in positions : j < k }) = n - 1

\* C29: load_and_split attaches an artifact to every chunk whose text contains
\* its reference string, to two neighbouring chunks as well when the overlap
\* repeats it; a chunk gets every artifact whose reference string it contains,
\* in extraction order, and has no 'images' or 'tables' key when it contains
\* none.
C29_LinksNotDeduplicated ==
    split.outcome = "returned"
    => \A i \in 1..Len(split.results) :
          LET chunk == split.results[i].content
              metadata == split.results[i].metadata
          IN /\ HoldsInOrder(metadata.images, SplitExtracted.image_paths, ImagesReferredTo(chunk))
             /\ HoldsInOrder(metadata.tables, SplitExtracted.tables_data, TablesReferredTo(chunk))
             /\ ("images" \in metadata.keys) = (ImagesReferredTo(chunk) # {})
             /\ ("tables" \in metadata.keys) = (TablesReferredTo(chunk) # {})

\* the overlap repeated the file name of the first image: the image is attached
\* to two neighbouring chunks, and the second chunk carries both images
C29_Witness ==
    /\ split.outcome = "returned"
    /\ split.chunk_overlap > 0
    /\ Len(split.results) = 2
    /\ Len(SplitExtracted.image_paths) = 2
    /\ split.results[1].metadata.images = <<SplitExtracted.image_paths[1]>>
    /\ split.results[2].metadata.images = SplitExtracted.image_paths
    /\ "tables" \notin split.results[1].metadata.keys

(***************************************************************************)
(* Claims about the router                                                 *)
(***************************************************************************)

EndsWith(text, suffix) ==
    /\ Len(suffix) <= Len(text)
    /\ Slice(text, Len(text) - Len(suffix) + 1, Len(text)) = suffix

Routed == result.outcome # "none"
RoutedType == detect_file_type(result.filename)

\* the extractor route_file selects for the file's type raised
SelectedExtractorRaised ==
    /\ Routed
    /\ \/ RoutedType = "pdf" /\ read_pdf_with_images(result.file_bytes, result.filename).raised
       \/ RoutedType \in {"docx", "doc"} /\ read_docx(result.file_bytes).raised
       \/ RoutedType = "txt" /\ read_txt(result.file_bytes).raised
       \/ RoutedType = "md" /\ read_md(result.file_bytes).raised

\* the exception that ended the extraction: for a PDF the fallback's
LastFaultMessage ==
    IF RoutedType = "pdf" THEN read_pdf(result.file_bytes).msg
    ELSE IF RoutedType \in {"docx", "doc"} THEN read_docx(result.file_bytes).msg
    ELSE <<>>

\* every extractor tried for the file raised: for a PDF read_pdf_with_images and
\* then read_pdf
EveryExtractorRaised ==
    /\ SelectedExtractorRaised
    /\ RoutedType = "pdf" => read_pdf(result.file_bytes).raised

\* C3 (as claimed): route_file returns a ProcessingResult and never raises; whenever
\* the selected extractor raises, the result has success=false and an error text
\* carrying the fault message.
C3_FaultsBecomeFailuresAsClaimed ==
    Routed => /\ result.outcome = "returned"
              /\ SelectedExtractorRaised
                 => /\ ~result.value.success
                    /\ result.value.error # <<>>
                    /\ EndsWith(result.value.error, LastFaultMessage)

\* C3 (amended): route_file returns a ProcessingResult and never raises; the result
\* is a failure whose error text ends with the fault message whenever every
\* extractor tried raised; a PDF whose advanced extractor raised and whose
\* fallback returned is a success that carries the first fault as fallback_reason.
C3_FaultsBecomeFailures ==
    Routed => /\ result.outcome = "returned"
              /\ EveryExtractorRaised
                 => /\ ~result.value.success
                    /\ result.value.error # <<>>
                    /\ EndsWith(result.value.error, LastFaultMessage)
              /\ (SelectedExtractorRaised /\ ~EveryExtractorRaised)
                 => /\ result.value.success
                    /\ result.value.metadata.fallback_reason
                         = read_pdf_with_images(result.file_bytes, result.filename).msg

\* a PDF on which PyMuPDF and pypdf both raised
C3_Witness ==
    /\ Routed
    /\ RoutedType = "pdf"
    /\ EveryExtractorRaised
    /\ ~result.value.success
    /\ LastFaultMessage # <<>>

\* C4: a ProcessingResult with success=false has empty content and a non-empty
\* error text.
C4_FailureShape ==
    (Routed /\ ~result.value.success)
    => (result.value.content = <<>> /\ result.value.error # <<>>)

\* a DOCX whose extractor raised an exception without text
C4_Witness ==
    /\ Routed
    /\ RoutedType = "docx"
    /\ read_docx(result.file_bytes).raised
    /\ read_docx(result.file_bytes).msg = <<>>
    /\ ~result.value.success

\* the type the claim gives for a filename
ClaimedFileType(filename) ==
    LET ext == Lower(SplitExt(filename))
    IN CASE ext = <<".", "p", "d", "f">> -> "pdf"
         [] ext = <<".", "d", "o", "c", "x">> -> "docx"
         [] ext = <<".", "d", "o", "c">> -> "doc"
         [] ext = <<".", "t", "x", "t">> -> "txt"
         [] ext \in {<<".", "m", "d">>, <<".", "m", "a", "r", "k", "d", "o", "w", "n">>} -> "md"
         [] OTHER -> "unknown"

\* C15: detect_file_type returns for every filename the type of its extension
\* read without regard to case (pdf, docx, doc, txt; md and markdown give MD;
\* anything else, or no extension, UNKNOWN) and changes no counter; route_file
\* on a file of UNKNOWN type returns a failed outcome whose error ends with the
\* extension as the filename writes it, and invokes no extractor.
C15_DetectFileType ==
    [][ /\ routerCall'.op = "detect_file_type"
           => /\ routerCall'.value = ClaimedFileType(routerCall'.arg)
              /\ routerCall'.value \in FileTypes
              /\ stats' = stats
        /\ (routerCall'.op = "route_file" /\ ClaimedFileType(result'.filename) = "unknown")
           => /\ ~result'.value.success
              /\ result'.value.file_type = "unknown"
              /\ result'.value.error
                   = <<"U", "n", "s", "u", "p", "p", "o", "r", "t", "e", "d", " ", "f", "i", "l", "e", " ", "t", "y", "p", "e", ":", " ">>
                     \o SplitExt(result'.filename)
              /\ result'.extractors = <<>> ]_vars

\* h.Exe was routed: the error cites ".Exe", no extractor ran
C15_Witness ==
    /\ routerCall.op = "route_file"
    /\ result.filename = F_h_Exe
    /\ ~result.value.success
    /\ EndsWith(result.value.error, <<".", "E", "x", "e">>)
    /\ result.extractors = <<>>

\* the counters of the router, as one function
Counters(st) ==
    [c \in {"files_processed", "successful_processing", "failed_processing"} \cup FileTypes |->
        IF c \in FileTypes THEN st.files_by_type[c] ELSE st[c]]

\* C16: in every step of route_file, route_multiple_files, detect_file_type and
\* get_statistics no counter decreases, detect_file_type and get_statistics
\* leave every counter as it is, and reset_statistics sets every counter to zero.
C16_CountersMonotone ==
    [][ /\ routerCall'.op # "reset_statistics"
           => \A c \in DOMAIN Counters(stats) : Counters(stats')[c] >= Counters(stats)[c]
        /\ routerCall'.op \in {"detect_file_type", "get_statistics"} => stats' = stats
        /\ routerCall'.op = "reset_statistics"
           => \A c \in DOMAIN Counters(stats) : Counters(stats')[c] = 0 ]_vars

\* get_statistics was called after files were routed, and the counters stand
C16_Witness ==
    /\ routerCall.op = "get_statistics"
    /\ routerCall.value.stats.files_processed = MaxFiles
    /\ stats = routerCall.value.stats

\* the last call routed a PDF that the advanced extractor read
RoutedAdvancedPdf ==
    /\ routerCall.op = "route_file"
    /\ RoutedType = "pdf"
    /\ result.value.success
    /\ result.value.metadata.processing_method = <<"p", "y", "m", "u", "p", "d", "f", "_", "a", "d", "v", "a", "n", "c", "e", "d">>

\* C17: in the outcome of a PDF read by the advanced extractor every table has
\* exactly one token "[Trang N] Bảng K: <ref>" in the text and every image
\* exactly one token "[Trang N] Hình ảnh: <file>", and the text has no further
\* token; a one-page PDF with one table of two rows and one image yields one
\* table, one image and a text that contains both tokens.
C17_OneTokenPerArtifact ==
    RoutedAdvancedPdf
    => LET v == result.value
           pages == result.file_bytes.pages
       IN /\ \A k \in 1..Len(v.tables) :
                Count(v.content, TableToken(result.filename, v.tables[k].page,
                                            v.tables[k].table_index)) = 1
          /\ \A k \in 1..Len(v.images) :
                \E n \in 1..Len(pages) :
                   Count(v.content,
                         <<"[", "T", "r", "a", "n", "g", " ">> \o Dec(n) \o <<"]", " ", "H", "ì", "n", "h", " ", "ả", "n", "h", ":", " ">>
                         \o BaseName(v.images[k])) = 1
          /\ Count(v.content, <<"]", " ", "B", "ả", "n", "g", " ">>) = Len(v.tables)
          /\ Count(v.content, <<"]", " ", "H", "ì", "n", "h", " ", "ả", "n", "h", ":", " ">>) = Len(v.images)
          /\ pages = <<PageRich>>
             => /\ Len(v.tables) = 1
                /\ Len(v.images) = 1
                /\ Contains(v.content, TableToken(result.filename, 1, 0))
                /\ Contains(v.content, ImageToken(result.filename, 1, 0))

\* the one-page PDF with one table of two rows and one image was routed
C17_Witness ==
    /\ RoutedAdvancedPdf
    /\ result.filename = F_a_pdf
    /\ result.file_bytes.pages = <<PageRich>>
    /\ Len(result.value.tables) = 1
    /\ Len(result.value.images) = 1

\* how often the extractor was invoked
Invocations(extractor) ==
    Cardinality({i \in 1..Len(result.extractors) : result.extractors[i] = extractor})

\* C19: routing a PDF invokes read_pdf only after read_pdf_with_images has
\* raised, and at most once; the outcome is successful when one of the two
\* returned, has no tables and no images when the fallback produced it, and is a
\* failure only when both raised; for the other types one extractor is invoked,
\* once.
C19_FallbackChain ==
    routerCall.op = "route_file"
    => LET adv == read_pdf_with_images(result.file_bytes, result.filename)
           simple == read_pdf(result.file_bytes)
       IN /\ RoutedType = "pdf"
             => /\ result.extractors[1] = "read_pdf_with_images"
                /\ Invocations("read_pdf_with_images") = 1
                /\ Invocations("read_pdf") = (IF adv.raised THEN 1 ELSE 0)
                /\ result.value.success = (~adv.raised \/ ~simple.raised)
                /\ (adv.raised /\ ~simple.raised)
                   => /\ result.value.tables = <<>>
                      /\ result.value.images = <<>>
                      /\ result.value.content = simple.text
          /\ RoutedType # "pdf" => Len(result.extractors) <= 1

\* a PDF was read by the fallback after the advanced extractor had raised
C19_Witness ==
    /\ routerCall.op = "route_file"
    /\ RoutedType = "pdf"
    /\ result.extractors = <<"read_pdf_with_images", "read_pdf">>
    /\ result.value.success
    /\ result.value.tables = <<>>

\* the sum of the per-type counts
TypeCountSum(st) ==
    st.files_by_type["pdf"] + st.files_by_type["docx"] + st.files_by_type["doc"]
    + st.files_by_type["txt"] + st.files_by_type["md"] + st.files_by_type["unknown"]

\* C20: files_processed always equals successful_processing plus
\* failed_processing and the sum of the per-type counts, and every route_file
\* call adds 1 to files_processed, 1 to exactly one of successful_processing and
\* failed_processing, and 1 to exactly one per-type count.
C20_CountersConsistent ==
    /\ [](/\ stats.files_processed = stats.successful_processing + stats.failed_processing
          /\ stats.files_processed = TypeCountSum(stats))
    /\ [][ routerCall'.op = "route_file"
           => /\ stats'.files_processed = stats.files_processed + 1
              /\ stats'.successful_processing + stats'.failed_processing
                   = stats.successful_processing + stats.failed_processing + 1
              /\ stats'.successful_processing >= stats.successful_processing
              /\ stats'.failed_processing >= stats.failed_processing
              /\ \E t \in FileTypes :
                    stats'.files_by_type = [stats.files_by_type EXCEPT ![t] = @ + 1] ]_vars

\* one file was routed with success and one, of unknown type, without
C20_Witness ==
    /\ routerCall.op = "route_file"
    /\ stats.files_processed = 2
    /\ stats.successful_processing = 1
    /\ stats.failed_processing = 1
    /\ stats.files_by_type["unknown"] = 1

(***************************************************************************)
(* Claims about the vector store                                           *)
(***************************************************************************)

PointsOf(source) == {p \in points : p.metadata.source = source}
StoredSources == {p.metadata.source : p \in {q \in points : Truthy(q.metadata.source)}}

\* C5 (as claimed): after delete_by_source(S) returns no stored record has source
\* S and every other record is stored unchanged; a second delete_by_source(S)
\* right after it removes nothing more and does not fail.
C5_DeleteBySourceIdempotent ==
    [][ /\ (call'.op = "delete_by_source" /\ call'.outcome = "returned")
           => /\ \A p \in points' : p.metadata.source # call'.arg
              /\ points' = {p \in points : p.metadata.source # call'.arg}
        /\ (/\ call.op = "delete_by_source" /\ call.outcome = "returned"
            /\ call'.op = "delete_by_source" /\ call'.arg = call.arg)
           => (call'.outcome = "returned" /\ points' = points) ]_vars

\* What holds of the repeated delete_by_source(S) when the provider answers it.
DeleteRepeatedWithoutFault ==
    [][ (/\ call.op = "delete_by_source" /\ call.outcome = "returned"
         /\ call'.op = "delete_by_source" /\ call'.arg = call.arg /\ ~call'.fault)
        => (call'.outcome = "returned" /\ points' = points) ]_vars

\* C6 (as claimed): when the provider raises during list_sources, clear_collection
\* or delete_by_source, the call returns [], False or 0 and the records are unchanged.
C6_AdminCallsSwallowFaults ==
    [][ (call'.fault /\ call'.op \in {"list_sources", "clear_collection", "delete_by_source"})
        => /\ call'.outcome = "returned"
           /\ call'.op = "list_sources" => call'.value = <<>>
           /\ call'.op = "clear_collection" => call'.value = FALSE
           /\ call'.op = "delete_by_source" => call'.value = 0
           /\ points' = points ]_vars

\* C7: search_by_source(S) returns stored records of source S only, and all of
\* them when S has at most 1000.
C7_SearchBySource ==
    (call.op = "search_by_source" /\ call.outcome = "returned")
    => /\ call.value \subseteq points
       /\ \A p \in call.value : p.metadata.source = call.arg
       /\ Cardinality(PointsOf(call.arg)) <= 1000
          => Cardinality(call.value) = Cardinality(PointsOf(call.arg))

\* two chunks of the source found, a record of another source left out, after a
\* delete_by_source
C7_Witness ==
    /\ call.op = "search_by_source" /\ call.outcome = "returned"
    /\ Cardinality(call.value) = 2
    /\ Cardinality(points) = 3
    /\ prevDelete # None

ListIsExact(list) ==
    /\ \A i \in 1..(Len(list) - 1) : StrLess(list[i], list[i + 1])
    /\ \A i \in 1..Len(list) : PointsOf(list[i]) # {}
    /\ Cardinality(points) <= 1000
       => \A source \in StoredSources : \E i \in 1..Len(list) : list[i] = source

\* C8 (as claimed): list_sources returns a strictly ascending list of the sources
\* that have a stored record, all of them when the collection holds at most 1000.
C8_ListSourcesAsClaimed ==
    (call.op = "list_sources" /\ call.outcome = "returned") => ListIsExact(call.value)

\* C8 (amended): the same when the provider answers the scan; when it raises,
\* list_sources returns the empty list.
C8_ListSources ==
    (call.op = "list_sources" /\ call.outcome = "returned")
    => IF call.fault THEN call.value = <<>> ELSE ListIsExact(call.value)

\* two sources listed, one of them shared by two chunks
C8_Witness ==
    /\ call.op = "list_sources" /\ ~call.fault
    /\ Len(call.value) = 2
    /\ Cardinality(points) = 3

\* C9: index_documents(items) adds one new record per item with the item's content
\* and metadata, keeps every stored record, and returns len(items).
C9_IndexDocumentsAppends ==
    [][ (call'.op = "index_documents" /\ call'.outcome = "returned")
        => LET items == call'.arg
               added == points' \ points
           IN /\ call'.value = Len(items)
              /\ points \subseteq points'
              /\ Cardinality(added) = Len(items)
              /\ \A it \in Items :
                    Cardinality({p \in added : /\ p.page_content = it.content
                                               /\ p.metadata = it.metadata})
                    = Cardinality({i \in 1..Len(items) : items[i] = it}) ]_vars

\* the same item indexed a second time: both records are stored
C9_Witness ==
    /\ call.op = "index_documents" /\ call.outcome = "returned"
    /\ Len(call.arg) = 1
    /\ Cardinality({p \in points : /\ p.page_content = call.arg[1].content
                                    /\ p.metadata = call.arg[1].metadata}) = 2

\* C10: once clear_collection has returned True the collection is empty, and
\* list_sources returns [] until index_documents is called again.
C10_ClearEmpties ==
    /\ (call.op = "clear_collection" /\ call.outcome = "returned" /\ call.value = TRUE)
       => points = {}
    /\ cleared => /\ points = {}
                  /\ (call.op = "list_sources" /\ call.outcome = "returned")
                     => call.value = <<>>

\* list_sources answered after a clear, before the next index_documents
C10_Witness ==
    /\ cleared
    /\ call.op = "list_sources" /\ ~call.fault
    /\ call.value = <<>>

(***************************************************************************)
(* Claims about the content analyzer                                       *)
(***************************************************************************)

\* the base size the claim gives for a content type
ClaimedBaseSize(content_type) ==
    CASE content_type = "text_only" -> 1000
      [] content_type = "structured_text" -> 600
      [] content_type = "text_table" -> 1200
      [] content_type = "text_table_image" -> 1500
      [] content_type = "table_only" -> 2000
      [] OTHER -> 800

\* the four steps of the claim, in its order; textLength/2 is the integer half
ClaimedChunkSize(content_type, text_length, table_count, image_count) ==
    LET size1 == ClaimedBaseSize(content_type)
        size2 == CASE text_length < 2000 -> Min(size1, text_length \div 2)
                   [] text_length > 50000 -> Min(size1 + 300, 2000)
                   [] OTHER -> size1
        size3 == size2 + (IF table_count > 5 \/ image_count > 10 THEN 200 ELSE 0)
    IN Max(size3, 200)

\* the strategy names, by content type alone
ClaimedStrategy(content_type) ==
    CASE content_type = "text_only" -> "text_only"
      [] content_type = "structured_text" -> "structure_aware"
      [] content_type = "text_table" -> "table_aware"
      [] content_type = "text_table_image" -> "multimedia_aware"
      [] content_type = "table_only" -> "table_focused"
      [] OTHER -> "standard"

\* C12: _recommend_processing_strategy returns the chunk size of the four steps
\* applied in the claimed order (base size by content type, adjustment by text
\* length, +200 for many tables or images, minimum 200), the strategy depends on
\* the content type alone, and TABLE_ONLY with text length 100 and few tables
\* and images gives 200.
C12_RecommendedChunkSize ==
    recommendation.called
    => /\ recommendation.chunk_size
            = ClaimedChunkSize(recommendation.content_type, recommendation.text_length,
                               recommendation.table_count, recommendation.image_count)
       /\ recommendation.strategy = ClaimedStrategy(recommendation.content_type)
       /\ (/\ recommendation.content_type = "table_only"
           /\ recommendation.text_length = 100
           /\ recommendation.table_count <= 5
           /\ recommendation.image_count <= 10)
          => recommendation.chunk_size = 200

\* the minimum of 200 acted after the density adjustment: TABLE_ONLY, text length
\* 100, more than five tables gives 50 + 200 = 250
C12_Witness ==
    /\ recommendation.called
    /\ recommendation.content_type = "table_only"
    /\ recommendation.text_length = 100
    /\ recommendation.table_count > 5
    /\ recommendation.chunk_size = 250

\* the content type and confidence (in hundredths) the claim gives
ClaimedContentType(has_text, has_tables, has_images, structure_score) ==
    CASE ~has_text /\ ~has_tables /\ ~has_images -> <<"empty", 100>>
      [] has_text /\ ~has_tables /\ ~has_images ->
            IF FloatGreater(structure_score, 3, 10) THEN <<"structured_text", 90>>
            ELSE <<"text_only", 95>>
      [] ~has_text /\ has_tables /\ ~has_images -> <<"table_only", 90>>
      [] ~has_text /\ ~has_tables /\ has_images -> <<"image_only", 90>>
      [] has_text /\ has_tables /\ has_images -> <<"text_table_image", 95>>
      [] has_text /\ has_tables /\ ~has_images -> <<"text_table", 90>>
      [] has_text /\ ~has_tables /\ has_images -> <<"mixed_content", 70>>
      [] ~has_text /\ has_tables /\ has_images -> <<"mixed_content", 70>>

\* C13: for a successful outcome the content type and the confidence of the
\* analysis are the claimed function of the flags has_text, has_tables,
\* has_images and the structure score: text alone is STRUCTURED_TEXT/0.9 above
\* 0.3 and TEXT_ONLY/0.95 up to and including 0.3, and the flags are those of the
\* outcome's content, tables and images.
C13_ContentTypeTable ==
    (analysis.called /\ analysis.given.success)
    => LET a == analysis.value
           given == analysis.given
       IN /\ <<a.content_type, a.confidence>>
               = ClaimedContentType(a.has_text, a.has_tables, a.has_images, a.structure_score)
          /\ a.has_text = ~Blank(given.content)
          /\ a.has_tables = (Len(given.tables) > 0)
          /\ a.has_images = (Len(given.images) > 0)

\* text alone with a structure score of exactly 0.3 was classified TEXT_ONLY
C13_Witness ==
    /\ analysis.called /\ analysis.given.success
    /\ analysis.value.has_text /\ ~analysis.value.has_tables /\ ~analysis.value.has_images
    /\ analysis.value.structure_score.num * 10 = 3 * analysis.value.structure_score.den
    /\ ~analysis.value.structure_score.above
    /\ analysis.value.content_type = "text_only"

\* C14: analyze_content on an outcome with success = false returns EMPTY with
\* confidence 1.0 whatever the outcome holds, and the outcome is after the call
\* what it was before.
C14_FailedOutcomeIsEmpty ==
    (analysis.called /\ ~analysis.given.success)
    => /\ analysis.value.content_type = "empty"
       /\ analysis.value.confidence = 100
       /\ analysis.processing_result = analysis.given

\* a failed outcome with text, a table and an image was analysed
C14_Witness ==
    /\ analysis.called /\ ~analysis.given.success
    /\ ~Blank(analysis.given.content)
    /\ Len(analysis.given.tables) > 0 /\ Len(analysis.given.images) > 0
    /\ analysis.given.file_type = "pdf"
    /\ analysis.value.content_type = "empty"


(***************************************************************************)
(* Claims about the upload flow                                            *)
(***************************************************************************)

\* the files of the batch whose chunking did not return
UploadRaised == { i \in 1..Len(upload.chunked) : upload.chunked[i].outcome # "returned" }

\* C21: in one upload batch the files are routed and chunked one after
\* another, in the order uploaded; index_documents is called at most once and
\* only after the last file was chunked; when the chunking of a file raises,
\* index_documents is not called and nothing of the batch reaches the store.
C21_IndexOnceAfterLastFile ==
    /\ [](/\ upload.index_calls <= 1
          /\ Len(upload.chunked) = upload.pos
          /\ \A i \in 1..Len(upload.chunked) : upload.chunked[i].name = upload.files[i].name
          /\ upload.index_calls = 1 =>
                /\ upload.pos = Len(upload.files)
                /\ UploadRaised = {}
          /\ UploadRaised # {} =>
                /\ upload.phase = "failed"
                /\ upload.index_calls = 0
                /\ points = {})
    /\ [][points' # points =>
             /\ upload.pos = Len(upload.files)
             /\ upload.index_calls = 0
             /\ upload'.index_calls = 1]_vars

\* the second file of a batch raised after the first one gave chunks
C21_Witness ==
    /\ upload.phase = "failed"
    /\ Len(upload.chunked) = 2
    /\ upload.chunked[1].outcome = "returned"
    /\ upload.chunked[1].chunks > 0
    /\ upload.chunked[2].outcome = "raised"
    /\ upload.items # <<>>
    /\ upload.index_calls = 0
    /\ points = {}

(***************************************************************************)
(* Claims about threads on one router                                      *)
(***************************************************************************)

\* the threads whose route_file call came to its end
ThreadsDone == { t \in Threads : threads[t].pc = "done" }

\* C22: route_file takes no lock: the store of each counter increment writes
\* the sum computed from the value the thread loaded, whatever the counter
\* holds by then, so an update can be lost: files_processed is at most the
\* number of route_file calls begun and may be smaller than the number
\* completed.
C22_UnprotectedIncrements ==
    [][/\ \A t \in Threads :
            (threads[t].loaded > 0 /\ threads'[t].loaded = 0) =>
                CounterValue(stats', ThreadCounter(threads[t])) = threads[t].loaded
       /\ stats'.files_processed <= Cardinality({ t \in Threads : threads'[t].pc # "idle" })]_vars

\* every thread completed its call and files_processed is short of the calls
C22_Witness ==
    /\ ThreadsDone = Threads
    /\ stats.files_processed < Cardinality(ThreadsDone)

(***************************************************************************)
(* Claims about the handlers of the router                                 *)
(***************************************************************************)

\* route_file handed the file to a handler
Dispatched ==
    /\ routerCall.op = "route_file"
    /\ RoutedType \in HandledTypes

\* C23: the file_type of the outcome of a file handed to a handler is
\* detect_file_type(filename), the type the file was counted under; a .doc
\* file yields an outcome of type DOC.
C23_OutcomeTypeIsCountedType ==
    Dispatched => result.value.file_type = RoutedType

\* C23, without the files of type DOC: the outcome has the type counted
C23_OutcomeTypeExceptDoc ==
    (Dispatched /\ RoutedType # "doc") => result.value.file_type = RoutedType

\* the rows under the header row of a grid that have a cell with a value
RemainingRows(grid) ==
    Cardinality({ i \in 2..Len(grid) : \E j \in 1..Len(grid[i]) : grid[i][j] # None })

\* table candidate k of page n is in the outcome's tables
InTables(n, k) ==
    \E i \in 1..Len(result.value.tables) :
        /\ result.value.tables[i].page = n
        /\ result.value.tables[i].table_index = k - 1

\* table candidate k of page n has its token in the text
HasTableToken(n, k) == Contains(result.value.content, TableToken(result.filename, n, k - 1))

\* the table candidates of the routed PDF: <<page, position on the page>>
Candidates ==
    UNION { { <<n, k>> : k \in 1..Len(result.file_bytes.pages[n].tables) }
            : n \in 1..Len(result.file_bytes.pages) }

\* C24 as amended: the advanced extractor adds a table candidate to the
\* outcome's tables, with a token in the text, exactly when its extraction
\* returned a grid of which at least one row remains after the header row is
\* removed and the fully empty rows and columns are dropped; every other
\* candidate is discarded and has no token.
C24_TableKeptWithOneRow ==
    RoutedAdvancedPdf
    => \A c \in Candidates :
          LET table == result.file_bytes.pages[c[1]].tables[c[2]]
          IN /\ InTables(c[1], c[2]) = (~table.raises /\ RemainingRows(table.data) >= 1)
             /\ HasTableToken(c[1], c[2]) = InTables(c[1], c[2])

\* a table of which one row remains is in the outcome, with its token
C24_Witness ==
    /\ RoutedAdvancedPdf
    /\ \E c \in Candidates :
          /\ ~result.file_bytes.pages[c[1]].tables[c[2]].raises
          /\ RemainingRows(result.file_bytes.pages[c[1]].tables[c[2]].data) = 1
          /\ InTables(c[1], c[2])
          /\ HasTableToken(c[1], c[2])

\* C24 as claimed: only the tables of which at least 2 rows remain are added to
\* the outcome's tables and get a token.
C24_TableKeptWithTwoRows ==
    RoutedAdvancedPdf
    => \A c \in Candidates :
          LET table == result.file_bytes.pages[c[1]].tables[c[2]]
          IN (InTables(c[1], c[2]) \/ HasTableToken(c[1], c[2]))
             => (~table.raises /\ RemainingRows(table.data) >= 2)

\* what the extractor of a DOCX, DOC, plain-text or Markdown file returned
ExtractedOf(file_type, file_bytes) ==
    IF file_type \in {"docx", "doc"} THEN read_docx(file_bytes)
    ELSE IF file_type = "txt" THEN read_txt(file_bytes)
    ELSE read_md(file_bytes)

ExtractedText == ExtractedOf(RoutedType, result.file_bytes)

\* C25: when the extractor of a DOCX, DOC, plain-text or Markdown file returns
\* text that is empty or only white space, route_file returns a failed outcome
\* with an error that is not empty, and the call adds one to failed_processing
\* and nothing to successful_processing.
C25_BlankTextFails ==
    [][(/\ routerCall'.op = "route_file"
        /\ detect_file_type(result'.filename) \in {"docx", "doc", "txt", "md"}
        /\ ~ExtractedOf(detect_file_type(result'.filename), result'.file_bytes).raised
        /\ Blank(ExtractedOf(detect_file_type(result'.filename), result'.file_bytes).text))
       => /\ ~result'.value.success
          /\ result'.value.error # <<>>
          /\ stats'.failed_processing = stats.failed_processing + 1
          /\ stats'.successful_processing = stats.successful_processing]_vars

\* a text file of white space was routed and counted as failed
C25_Witness ==
    /\ routerCall.op = "route_file"
    /\ RoutedType = "txt"
    /\ ~ExtractedText.raised
    /\ ExtractedText.text # <<>>
    /\ Blank(ExtractedText.text)
    /\ ~result.value.success
    /\ stats.failed_processing = 1
    /\ stats.successful_processing = 0

\* C26: every outcome route_file returns with success=true has content that
\* is not blank, whatever the file type, on the advanced and on the fallback
\* path of a PDF.
C26_SuccessHasContent ==
    (routerCall.op = "route_file" /\ result.value.success)
    => ~Blank(result.value.content)

\* C26, without the PDF files: a successful outcome has content
C26_SuccessHasContentExceptPdf ==
    (routerCall.op = "route_file" /\ result.value.success /\ RoutedType # "pdf")
    => ~Blank(result.value.content)

\* C26, the consequence: analyze_content gives no successful outcome without
\* tables and images the content type EMPTY.
C26_SuccessNeverEmpty ==
    (/\ analysis.called
     /\ analysis.given \in RoutedResults
     /\ analysis.given.success
     /\ analysis.given.tables = <<>>
     /\ analysis.given.images = <<>>)
    => analysis.value.content_type # "empty"

\* C30: the page_count of a successfully routed PDF is the number of its pages
\* that gave text, however many tables and images came from them.
C30_PageCountIsPagesWithText ==
    (routerCall.op = "route_file" /\ RoutedType = "pdf" /\ result.value.success)
    => result.value.metadata.page_count =
          Cardinality({ n \in 1..Len(result.file_bytes.pages) :
                          ~Blank(result.file_bytes.pages[n].text) })

\* C30, for the PDFs with text on a page and no table and no image kept: the
\* page_count is the number of pages that gave text
C30_PageCountOfPlainPdf ==
    (/\ routerCall.op = "route_file" /\ RoutedType = "pdf" /\ result.value.success
     /\ result.value.tables = <<>> /\ result.value.images = <<>>
     /\ ~Blank(result.value.content))
    => result.value.metadata.page_count =
          Cardinality({ n \in 1..Len(result.file_bytes.pages) :
                          ~Blank(result.file_bytes.pages[n].text) })

(***************************************************************************)
(* Claims about the chunk sizes of the upload flow                         *)
(***************************************************************************)

\* sizes the analyzer recommends: the least, the greatest, and those around four
\* times the configured overlaps
RecommendedSizes == {200, 479, 480, 481, 800, 2200}

\* min(configured overlap, recommended size / 4), integer division
ClaimedOverlap(cfg, recommended_size) ==
    IF cfg.chunk_overlap <= recommended_size \div 4
    THEN cfg.chunk_overlap ELSE recommended_size \div 4

\* C27: the upload flow chunks a successfully routed file with the size the
\* analyzer recommended and the overlap min(configured overlap, recommended
\* size / 4), which is smaller than the chunk size; it chunks a file whose
\* routing failed with the configured size and overlap.
C27_UploadChunkSizes ==
    /\ \A i \in 1..Len(upload.chunked) :
          LET c == upload.chunked[i]
          IN IF c.success
             THEN /\ c.chunk_size = c.recommended_size
                  /\ c.chunk_overlap = ClaimedOverlap(upload.cfg, c.recommended_size)
                  /\ c.chunk_overlap < c.chunk_size
             ELSE /\ c.chunk_size = upload.cfg.chunk_size
                  /\ c.chunk_overlap = upload.cfg.chunk_overlap
    /\ upload.phase # "idle"
       => \A recommended_size \in RecommendedSizes :
             LET p == UploadSplitParams(upload.cfg, [success |-> TRUE],
                                        [recommended_chunk_size |-> recommended_size])
             IN /\ p.chunk_size = recommended_size
                /\ p.chunk_overlap = ClaimedOverlap(upload.cfg, recommended_size)
                /\ p.chunk_overlap < p.chunk_size

\* a batch of a routed file, chunked with a quarter of the recommended size as
\* overlap, and a file whose routing failed, chunked with the configuration
C27_Witness ==
    /\ Len(upload.chunked) = 2
    /\ upload.chunked[1].success
    /\ upload.chunked[1].chunk_overlap = upload.chunked[1].recommended_size \div 4
    /\ upload.chunked[1].chunk_overlap < upload.cfg.chunk_overlap
    /\ ~upload.chunked[2].success
    /\ upload.chunked[2].chunk_size = upload.cfg.chunk_size

(***************************************************************************)
(* Claims about the bounds of the recommended chunk size                   *)
(***************************************************************************)

\* C28: whatever the content type, the text length and the numbers of tables
\* and images, the chunk size _recommend_processing_strategy returns is at
\* least 200 and at most 2200, and it is above 2000 only when there are more
\* than 5 tables or more than 10 images.
C28_ChunkSizeBounds ==
    recommendation.called
    => /\ recommendation.chunk_size >= 200
       /\ recommendation.chunk_size <= 2200
       /\ recommendation.chunk_size > 2000
          => (recommendation.table_count > 5 \/ recommendation.image_count > 10)

\* the greatest size: the cap of 2000 for a long document of tables, and 200
\* more for its many tables
C28_Witness ==
    /\ recommendation.called
    /\ recommendation.content_type = "table_only"
    /\ recommendation.text_length > 50000
    /\ recommendation.table_count > 5
    /\ recommendation.chunk_size = 2200

====
